---- MODULE Spec2Model ----
(***************************************************************************)
(* Model of the scientific calculator (AdvancedCalculator component) and   *)
(* of the math utility library it calls.                                   *)
(*                                                                         *)
(* Strings are sequences of one-character strings.  Characters outside     *)
(* ASCII are written by name: "TIMES" is the multiplication glyph, "DIVIDE"*)
(* the division glyph, "SQUARED" the superscript two, "PI" the Greek       *)
(* letter pi, "DEG" the degree sign, "SQRT" the radical sign, and the      *)
(* characters of the Chinese marker strings are written in pinyin.         *)
(*                                                                         *)
(* Numbers are exact rationals [k |-> "num", n, d] in lowest terms, the    *)
(* two infinities, NaN, and "oor" for a value the model's integer range    *)
(* cannot carry (the handlers are not explored on such inputs).            *)
(***************************************************************************)
EXTENDS Integers, Sequences, FiniteSets, TLC

(* ------------------------------ bounds --------------------------------- *)

\* Longest text the keys may type (appends are disabled beyond it).
MaxLen == 3

\* Largest numerator / denominator the model's rationals carry.
MaxMagnitude == 100000000

\* Longest expression of the pre-processor's callers, largest small integer
\* of the converters' callers, and largest coefficient of the solver's.
MaxExprLen == 3
MaxNumber == 300
MaxCoefficient == 3

\* Most zeros that end a number typed into the calculator.
MaxZeros == 21

(* ---------------------------- characters ------------------------------- *)

DigitChars == {"0", "1", "2", "3", "4", "5", "6", "7", "8", "9"}

\* Letters that can occur in the text: the constants' names, the letters of
\* "NaN" and "Infinity", a variable name, and the characters of the marker
\* strings (which are letters to the expression parser but not to the regex
\* [a-zA-Z]).
AsciiLetters == {"p", "i", "e", "N", "a", "x", "I", "n", "f", "t", "y"}

LetterChars == AsciiLetters \cup
               {"cuo", "wu", "shu", "ru", "xiao", "ji", "suan",
                "qing", "fei", "fu", "zheng", "huo", "chu", "yi"}

IsDigit(c) == c \in DigitChars

IsLetter(c) == c \in LetterChars

DigitValue(c) ==
  CASE c = "0" -> 0 [] c = "1" -> 1 [] c = "2" -> 2 [] c = "3" -> 3
    [] c = "4" -> 4 [] c = "5" -> 5 [] c = "6" -> 6 [] c = "7" -> 7
    [] c = "8" -> 8 [] c = "9" -> 9

DigitChar(k) ==
  CASE k = 0 -> "0" [] k = 1 -> "1" [] k = 2 -> "2" [] k = 3 -> "3"
    [] k = 4 -> "4" [] k = 5 -> "5" [] k = 6 -> "6" [] k = 7 -> "7"
    [] k = 8 -> "8" [] k = 9 -> "9"


(* ---------------------------- evaluation order -------------------------- *)
(* JavaScript evaluates an argument or a const once, before it is used.     *)

\* F(x), with x evaluated once.
Bind(x, F(_)) == CHOOSE out \in {F(y) : y \in {x}} : TRUE

\* F(x1, x2), with x1 and x2 evaluated once.
Bind2(x1, x2, F(_, _)) ==
  CHOOSE out \in {F(y1, y2) : y1 \in {x1}, y2 \in {x2}} : TRUE

\* F(x1, x2, x3), with x1, x2 and x3 evaluated once.
Bind3(x1, x2, x3, F(_, _, _)) ==
  CHOOSE out \in {F(y1, y2, y3) : y1 \in {x1}, y2 \in {x2}, y3 \in {x3}} : TRUE

(* ------------------------------ numbers -------------------------------- *)

Abs(x) == IF x < 0 THEN -x ELSE x

Sign(x) == IF x < 0 THEN -1 ELSE IF x = 0 THEN 0 ELSE 1

Gcd[a \in Nat, b \in Nat] == IF b = 0 THEN a ELSE Gcd[b, a % b]

NaN == [k |-> "nan"]
\* A non-zero value of magnitude below 1e-12, such as Math.sin(Math.PI).
Tiny == [k |-> "tiny"]
\* A finite value of magnitude above 1e15, such as Math.tan(Math.PI / 2).
Huge == [k |-> "huge"]
Infinity(s) == [k |-> "inf", s |-> s]
\* The integer n * 10^p, for a magnitude above MaxMagnitude (n is not zero
\* and not a multiple of ten).
Sci(n, p) == [k |-> "sci", n |-> n, p |-> p]
OutOfRange == [k |-> "oor"]

\* The rational n/d (d > 0 after the sign is moved to n), in lowest terms.
Rat(n, d) ==
  Bind2(n, d, LAMBDA a, b :
    Bind(Gcd[Abs(a), Abs(b)], LAMBDA g :
      IF Abs(a) \div g > MaxMagnitude \/ Abs(b) \div g > MaxMagnitude
        THEN OutOfRange
        ELSE [k |-> "num", n |-> (Sign(b) * a) \div g, d |-> Abs(b) \div g]))

Num(n) == [k |-> "num", n |-> n, d |-> 1]

\* isFinite(num) && !isNaN(num)
IsFiniteValue(v) == v.k \in {"num", "tiny", "huge", "sci"}

\* A product the integer range carries.
MulFits(a, b) == a = 0 \/ Abs(b) <= MaxMagnitude \div Abs(a)

ValSign(v) == IF v.k = "num" THEN Sign(v.n) ELSE v.s

\* IEEE addition.
Add(x, y) ==
  Bind2(x, y, LAMBDA a, b :
    IF a.k \notin {"num", "nan", "inf"} \/ b.k \notin {"num", "nan", "inf"}
      THEN OutOfRange
    ELSE IF a.k = "nan" \/ b.k = "nan" THEN NaN
    ELSE IF a.k = "inf" /\ b.k = "inf" THEN (IF a.s = b.s THEN a ELSE NaN)
    ELSE IF a.k = "inf" THEN a
    ELSE IF b.k = "inf" THEN b
    ELSE IF MulFits(a.n, b.d) /\ MulFits(b.n, a.d) /\ MulFits(a.d, b.d)
           THEN Rat(a.n * b.d + b.n * a.d, a.d * b.d)
           ELSE OutOfRange)

Neg(x) ==
  Bind(x, LAMBDA a :
    IF a.k = "num" THEN [k |-> "num", n |-> -a.n, d |-> a.d]
    ELSE IF a.k = "sci" THEN Sci(-a.n, a.p)
    ELSE IF a.k = "inf" THEN Infinity(-a.s)
    ELSE a)

Sub(x, y) == Add(x, Neg(y))

\* (a/b) * (c/d) for finite values, cancelling before it multiplies.
MulNum(a, b, c, d) ==
  Bind2(Gcd[Abs(a), d], Gcd[Abs(c), b], LAMBDA g1, g2 :
    IF MulFits(a \div g1, c \div g2) /\ MulFits(b \div g2, d \div g1)
      THEN Rat((a \div g1) * (c \div g2), (b \div g2) * (d \div g1))
      ELSE OutOfRange)

\* IEEE multiplication.
Mul(x, y) ==
  Bind2(x, y, LAMBDA a, b :
    IF a.k \notin {"num", "nan", "inf"} \/ b.k \notin {"num", "nan", "inf"}
      THEN OutOfRange
    ELSE IF a.k = "nan" \/ b.k = "nan" THEN NaN
    ELSE IF a.k = "inf" \/ b.k = "inf"
           THEN (IF ValSign(a) = 0 \/ ValSign(b) = 0 THEN NaN
                 ELSE Infinity(ValSign(a) * ValSign(b)))
    ELSE MulNum(a.n, a.d, b.n, b.d))

\* IEEE division: x/0 is an infinity (NaN for 0/0), x/Infinity is 0.
Div(x, y) ==
  Bind2(x, y, LAMBDA a, b :
    IF a.k \notin {"num", "nan", "inf"} \/ b.k \notin {"num", "nan", "inf"}
      THEN OutOfRange
    ELSE IF a.k = "nan" \/ b.k = "nan" THEN NaN
    ELSE IF a.k = "inf" /\ b.k = "inf" THEN NaN
    ELSE IF a.k = "inf"
           THEN Infinity(a.s * (IF ValSign(b) < 0 THEN -1 ELSE 1))
    ELSE IF b.k = "inf" THEN Num(0)
    ELSE IF b.n = 0 THEN (IF a.n = 0 THEN NaN ELSE Infinity(Sign(a.n)))
    ELSE MulNum(a.n, a.d, Sign(b.n) * b.d, Abs(b.n)))

\* floor of a rational (TLA+ \div rounds towards minus infinity).
Floor(x) == x.n \div x.d

IsIntegerValue(v) == v.k = "num" /\ v.d = 1

\* mathjs mod: x - y*floor(x/y), and x when y = 0.
Mod(x, y) ==
  Bind2(x, y, LAMBDA a, b :
    Bind(Div(a, b), LAMBDA q :
      IF a.k \notin {"num", "nan", "inf"} \/ b.k \notin {"num", "nan", "inf"}
        THEN OutOfRange
      ELSE IF a.k # "num" \/ b.k # "num" THEN NaN
      ELSE IF b.n = 0 THEN a
      ELSE IF q.k # "num" THEN OutOfRange
      ELSE Sub(a, Mul(b, Num(Floor(q))))))

Pow10[k \in Nat] == IF k = 0 THEN 1 ELSE 10 * Pow10[k - 1]

\* The largest power of ten the rationals carry is 10^MaxExp10.
MaxExp10 == 8

\* x^k for an integer k >= 0, by repeated multiplication.
RECURSIVE PowInt(_, _)
PowInt(x, k) ==
  Bind2(x, k, LAMBDA a, j : IF j = 0 THEN Num(1) ELSE Mul(a, PowInt(a, j - 1)))

(* --------------------- expression pre-processor ------------------------ *)

At(s, i) == IF i >= 1 /\ i <= Len(s) THEN s[i] ELSE ""

IsSpace(c) == c = " "

\* A global replace scans for the leftmost match, copies the text before it,
\* writes the replacement and goes on after the match.  First index k in
\* i..Len(s) where a match M starts (Len(s)+1 when there is none).
FirstMatch(s, i, M(_, _)) ==
  CHOOSE k \in i..(Len(s) + 1) :
    /\ k = Len(s) + 1 \/ M(s, k)
    /\ \A m \in i..(k - 1) : ~M(s, m)

\* First index >= i that holds no whitespace (Len(s)+1 when there is none).
SkipSpaces(s, i) ==
  Bind2(s, i, LAMBDA t, j :
    IF j > Len(t) THEN j
    ELSE FirstMatch(t, j, LAMBDA u, m : ~IsSpace(u[m])))

\* Last index of the run of digits that starts at i (i-1 when s[i] is no digit).
DigitRunEnd(s, i) ==
  Bind2(s, i, LAMBDA t, j :
    IF j > Len(t) THEN j - 1
    ELSE FirstMatch(t, j, LAMBDA u, m : ~IsDigit(u[m])) - 1)

\* e.replace(/TIMES/g, '*').replace(/DIVIDE/g, '/')
ReplaceGlyphs(s) ==
  Bind(s, LAMBDA t :
    [i \in 1..Len(t) |-> IF t[i] = "TIMES" THEN "*"
                         ELSE IF t[i] = "DIVIDE" THEN "/" ELSE t[i]])

\* e.replace(/SQUARED/g, '^2')
RECURSIVE ReplaceSquared(_)
ReplaceSquared(s) ==
  Bind(s, LAMBDA t :
    Bind(FirstMatch(t, 1, LAMBDA u, m : u[m] = "SQUARED"), LAMBDA k :
      IF k > Len(t) THEN t
      ELSE SubSeq(t, 1, k - 1) \o <<"^", "2">>
           \o ReplaceSquared(SubSeq(t, k + 1, Len(t)))))

\* e.replace(/(\d)\s*([a-zA-ZPI(])/g, (_, a, b) => `${a}*${b}`), scanning from i.
RECURSIVE InsertDigitTimes(_, _)
InsertDigitTimes(s, i) ==
  Bind2(s, i, LAMBDA t, from :
    Bind(FirstMatch(t, from, LAMBDA u, m :
           /\ IsDigit(u[m])
           /\ Bind(SkipSpaces(u, m + 1), LAMBDA j :
                /\ j <= Len(u)
                /\ (u[j] \in AsciiLetters \/ u[j] = "PI" \/ u[j] = "("))),
         LAMBDA k :
      IF k > Len(t) THEN SubSeq(t, from, Len(t))
      ELSE Bind(SkipSpaces(t, k + 1), LAMBDA j :
             SubSeq(t, from, k - 1) \o <<t[k], "*", t[j]>>
             \o InsertDigitTimes(t, j + 1))))

\* e.replace(/\)\s*\(/g, ')*('), scanning from i.
RECURSIVE InsertParenTimes(_, _)
InsertParenTimes(s, i) ==
  Bind2(s, i, LAMBDA t, from :
    Bind(FirstMatch(t, from, LAMBDA u, m :
           /\ u[m] = ")"
           /\ Bind(SkipSpaces(u, m + 1), LAMBDA j :
                j <= Len(u) /\ u[j] = "(")),
         LAMBDA k :
      IF k > Len(t) THEN SubSeq(t, from, Len(t))
      ELSE Bind(SkipSpaces(t, k + 1), LAMBDA j :
             SubSeq(t, from, k - 1) \o <<")", "*", "(">>
             \o InsertParenTimes(t, j + 1))))

\* e.replace(/PI/g, 'pi')
RECURSIVE ReplacePi(_)
ReplacePi(s) ==
  Bind(s, LAMBDA t :
    Bind(FirstMatch(t, 1, LAMBDA u, m : u[m] = "PI"), LAMBDA k :
      IF k > Len(t) THEN t
      ELSE SubSeq(t, 1, k - 1) \o <<"p", "i">>
           \o ReplacePi(SubSeq(t, k + 1, Len(t)))))

\* '($1/100)' for the match s[i..last].
WrapPercent(s, i, last) ==
  <<"(">> \o SubSeq(s, i, last) \o <<"/", "1", "0", "0", ")">>

\* Last index of the digits of the match of /(\d+(\.\d+)?)%/ that starts at
\* k: digits, optionally a dot and digits, and then the percent sign (0 when
\* no match starts at k).
PercentOperandEnd(s, k) ==
  Bind2(DigitRunEnd(s, k), DigitRunEnd(s, DigitRunEnd(s, k) + 2), LAMBDA a, b :
    IF ~IsDigit(s[k]) THEN 0
    ELSE IF At(s, a + 1) = "." /\ b >= a + 2 /\ At(s, b + 1) = "%" THEN b
    ELSE IF At(s, a + 1) = "%" THEN a
    ELSE 0)

\* e.replace(/(\d+(\.\d+)?)%/g, '($1/100)'), scanning from i.
RECURSIVE ReplacePercent(_, _)
ReplacePercent(s, i) ==
  Bind2(s, i, LAMBDA t, from :
    Bind(FirstMatch(t, from, LAMBDA u, m : PercentOperandEnd(u, m) > 0),
         LAMBDA k :
      IF k > Len(t) THEN SubSeq(t, from, Len(t))
      ELSE Bind(PercentOperandEnd(t, k), LAMBDA last :
             SubSeq(t, from, k - 1) \o WrapPercent(t, k, last)
             \o ReplacePercent(t, last + 2))))

sanitizeExpressionForEval(expr) ==
  Bind(expr, LAMBDA e :
    IF e = <<>> THEN e
    ELSE ReplacePercent(
           ReplacePi(
             InsertParenTimes(
               InsertDigitTimes(ReplaceSquared(ReplaceGlyphs(e)), 1), 1)), 1))

(* ------------------- delegated expression evaluator -------------------- *)
(* The call evaluate(sanitized) of the expression library, for the         *)
(* characters the calculator can hold: numbers, + - * / %, parentheses,    *)
(* implicit multiplication, and the constants pi, e, NaN and Infinity.      *)

\* pi and e to ten significant digits, as rationals.
PiValue == Rat(103993, 33102)
EValue == Rat(49171, 18089)

Throw == [k |-> "throw"]

\* The integer written by the digits s[i..j], or -1 beyond the integer range.
RECURSIVE DigitsValue(_, _, _, _)
DigitsValue(s, i, j, acc) ==
  Bind2(i, acc, LAMBDA k, n :
    IF k > j \/ n < 0 THEN n
    ELSE IF n > MaxMagnitude \div 10 THEN -1
    ELSE DigitsValue(s, k + 1, j, n * 10 + DigitValue(s[k])))

\* Last index of s[i..j] that holds a digit other than zero (i-1 when none).
LastNonZero(s, i, j) ==
  Bind(j, LAMBDA last :
    IF last < i THEN last
    ELSE CHOOSE k \in (i - 1)..last :
           /\ k < i \/ s[k] # "0"
           /\ \A m \in (k + 1)..last : s[m] = "0")

\* The value of the integer literal s[i..a] that is beyond the integer range:
\* its digits up to the last non-zero one, times the power of ten of the
\* zeros that follow, when those digits are within the range.
LargeIntegerValue(s, i, a) ==
  Bind(LastNonZero(s, i, a), LAMBDA z :
    Bind(DigitsValue(s, i, z, 0), LAMBDA m :
      IF m <= 0 THEN OutOfRange ELSE Sci(m, a - z)))

\* The value of a number token: the digits s[i..a] and s[a+2..b] with fracN
\* of them after the dot, scaled by the exponent s[ed..ee] when hasE.
NumberValue(s, i, a, b, fracN, hasE, negE, ed, ee) ==
  Bind2(DigitsValue(s, a + 2, b, DigitsValue(s, i, a, 0)),
        IF hasE THEN DigitsValue(s, ed, ee, 0) ELSE 0,
        LAMBDA allV, expV :
    IF allV < 0 /\ b <= a /\ ~hasE THEN LargeIntegerValue(s, i, a)
    ELSE IF allV < 0 \/ fracN > MaxExp10 \/ expV < 0 \/ expV > MaxExp10
      THEN OutOfRange
    ELSE IF ~hasE THEN Rat(allV, Pow10[fracN])
    ELSE IF negE THEN Div(Rat(allV, Pow10[fracN]), Num(Pow10[expV]))
    ELSE Mul(Rat(allV, Pow10[fracN]), Num(Pow10[expV])))

\* The number token that starts at i (s[i] is a digit or a dot):
\* digits [. digits] or . digits, then an optional exponent e[+-]digits.
\* A dot with no digit on either side is no number (isnum = FALSE).
ReadNumber(s, i) ==
  Bind3(s, i, DigitRunEnd(s, i), LAMBDA t, k, a :
    Bind(IF a < k \/ (At(t, a + 1) = "." /\ At(t, a + 2) \notin {"/", "*", "^"})
           THEN DigitRunEnd(t, a + 2) ELSE a,
         LAMBDA b :
      Bind2(At(t, b + 2) \in {"+", "-"},
            DigitRunEnd(t, IF At(t, b + 2) \in {"+", "-"} THEN b + 3 ELSE b + 2),
            LAMBDA sgn, ee :
        LET lead  == a >= k
            fracN == IF b > a THEN b - (a + 1) ELSE 0
            c     == b + 1
            ed    == IF sgn THEN c + 2 ELSE c + 1
            hasE  == At(t, c) = "e" /\ (IsDigit(At(t, c + 1)) \/ sgn)
            bad   == \/ (hasE /\ ee < ed)
                     \/ (hasE /\ At(t, ee + 1) = "."
                              /\ At(t, ee + 2) \notin {"/", "*", "^"})
                     \/ (~hasE /\ At(t, c) = "e" /\ At(t, c + 1) = ".")
        IN IF ~lead /\ b < a + 2
             THEN [isnum |-> FALSE, v |-> Throw, next |-> k + 1]
           ELSE IF bad THEN [isnum |-> TRUE, v |-> Throw, next |-> Len(t) + 1]
           ELSE [isnum |-> TRUE,
                 v |-> NumberValue(t, k, a, b, fracN, hasE,
                                   At(t, c + 1) = "-", ed, ee),
                 next |-> IF hasE THEN ee + 1 ELSE c])))

\* Last index of the symbol that starts at i: letters, then letters or digits.
SymbolEnd(s, i) ==
  Bind2(s, i, LAMBDA t, j :
    IF j > Len(t) THEN j - 1
    ELSE FirstMatch(t, j, LAMBDA u, m : ~(IsLetter(u[m]) \/ IsDigit(u[m]))) - 1)

OperatorChars == {"+", "-", "*", "/", "%", "^", "(", ")"}

\* The tokens of s from index i on; a character no token starts with, or a
\* malformed number, gives a "throw" token.
RECURSIVE Tokenize(_, _)
Tokenize(s, i) ==
  Bind2(s, i, LAMBDA t, k :
    IF k > Len(t) THEN <<>>
    ELSE IF IsSpace(t[k]) THEN Tokenize(t, k + 1)
    ELSE IF t[k] = "." /\ At(t, k + 1) \in {"*", "/", "^"}
      THEN <<[t |-> "op", c |-> t[k + 1]]>> \o Tokenize(t, k + 2)
    ELSE IF t[k] \in OperatorChars
      THEN <<[t |-> "op", c |-> t[k]]>> \o Tokenize(t, k + 1)
    ELSE IF IsDigit(t[k]) \/ t[k] = "."
      THEN Bind(ReadNumber(t, k), LAMBDA r :
             IF ~r.isnum \/ r.v = Throw THEN <<[t |-> "throw"]>>
             ELSE <<[t |-> "num", v |-> r.v]>> \o Tokenize(t, r.next))
    ELSE IF IsLetter(t[k])
      THEN Bind(SymbolEnd(t, k), LAMBDA z :
             <<[t |-> "sym", name |-> SubSeq(t, k, z)]>> \o Tokenize(t, z + 1))
    ELSE <<[t |-> "throw"]>>)

EndToken == [t |-> "end"]

Tok(ts, p) == IF p <= Len(ts) THEN ts[p] ELSE EndToken

IsOp(tk, c) == tk.t = "op" /\ tk.c = c

\* Value of a symbol: the constants the library defines; any other name is
\* undefined and throws.  (i is the imaginary unit: not a real number.)
SymbolValue(name) ==
  IF name = <<"p", "i">> THEN PiValue
  ELSE IF name = <<"e">> THEN EValue
  ELSE IF name = <<"N", "a", "N">> THEN NaN
  ELSE IF name = <<"I", "n", "f", "i", "n", "i", "t", "y">> THEN Infinity(1)
  ELSE IF name = <<"i">> THEN OutOfRange
  ELSE Throw

\* A parse result: the value of the node, the next token, the kind of node
\* ("const", "uconst" = signed constant, "sym", "paren", "op") and whether
\* the node is a trailing percentage.
Node(v, p, kind) == [st |-> "ok", v |-> v, p |-> p, kind |-> kind, pct |-> FALSE]
Failed == [st |-> "throw"]

RECURSIVE ParseAddSubtract(_, _), AddSubtractLoop(_, _, _),
          ParseMultiplyDivide(_, _), MultiplyDivideLoop(_, _, _),
          ParseImplicitMultiplication(_, _), ImplicitLoop(_, _, _, _),
          ParseRule2(_, _), Rule2Loop(_, _, _),
          ParseUnary(_, _), ParsePow(_, _), ParsePrimary(_, _)

\* number | symbol | ( expression ).  A symbol followed by "(" is a call of
\* something that is no function, which throws.  A "var" token is a symbol
\* the scope binds to a value.
ParsePrimary(ts, p) ==
  Bind2(Tok(ts, p), p, LAMBDA tk, q :
    IF tk.t = "num" THEN Node(tk.v, q + 1, "const")
    ELSE IF tk.t = "sym"
      THEN IF IsOp(Tok(ts, q + 1), "(") \/ SymbolValue(tk.name) = Throw
             THEN Failed
             ELSE Node(SymbolValue(tk.name), q + 1, "sym")
    ELSE IF tk.t = "var"
      THEN IF IsOp(Tok(ts, q + 1), "(") THEN Failed
           ELSE Node(tk.v, q + 1, "sym")
    ELSE IF IsOp(tk, "(")
      THEN Bind(ParseAddSubtract(ts, q + 1), LAMBDA r :
             IF r.st = "ok" /\ IsOp(Tok(ts, r.p), ")")
               THEN Node(r.v, r.p + 1, "paren")
               ELSE Failed)
    ELSE Failed)

\* The power l ^ r; the model carries integer exponents from 0 to MaxExp10.
PowNode(l, r) ==
  IF r.st # "ok" THEN Failed
  ELSE IF IsIntegerValue(r.v) /\ r.v.n >= 0 /\ r.v.n <= MaxExp10
    THEN Node(PowInt(l.v, r.v.n), r.p, "op")
  ELSE Node(OutOfRange, r.p, "op")

\* primary [^ unary]
ParsePow(ts, p) ==
  Bind(ParsePrimary(ts, p), LAMBDA l :
    IF l.st = "ok" /\ IsOp(Tok(ts, l.p), "^")
      THEN Bind(ParseUnary(ts, l.p + 1), LAMBDA r : PowNode(l, r))
      ELSE l)

\* [+ | -] unary | pow
ParseUnary(ts, p) ==
  Bind2(Tok(ts, p), p, LAMBDA tk, q :
    IF IsOp(tk, "-") \/ IsOp(tk, "+")
      THEN Bind(ParseUnary(ts, q + 1), LAMBDA r :
             IF r.st # "ok" THEN Failed
             ELSE Node(IF tk.c = "-" THEN Neg(r.v) ELSE r.v, r.p,
                       IF r.kind = "const" THEN "uconst" ELSE "op"))
      ELSE ParsePow(ts, q))

\* "number / number symbol" divides before the implicit multiplication;
\* acc is the node parsed so far, of kind lastKind.
Rule2Loop(ts, acc, lastKind) ==
  Bind2(acc, lastKind, LAMBDA l, kind :
    IF /\ IsOp(Tok(ts, l.p), "/")
       /\ kind \in {"const", "uconst"}
       /\ Tok(ts, l.p + 1).t = "num"
       /\ (Tok(ts, l.p + 2).t = "sym" \/ IsOp(Tok(ts, l.p + 2), "("))
      THEN Bind(ParseUnary(ts, l.p + 1), LAMBDA r :
             IF r.st # "ok" THEN Failed
             ELSE Rule2Loop(ts, Node(Div(l.v, r.v), r.p, "op"), r.kind))
      ELSE l)

ParseRule2(ts, p) ==
  Bind(ParseUnary(ts, p), LAMBDA l :
    IF l.st # "ok" THEN Failed ELSE Rule2Loop(ts, l, l.kind))

\* Implicit multiplication: a symbol, a "(", or a number that does not follow
\* a constant or an operator node, multiplies what precedes it.
ImplicitLoop(ts, acc, lastKind, p) ==
  Bind3(acc, lastKind, Tok(ts, p), LAMBDA l, kind, tk :
    IF \/ tk.t = "sym"
       \/ (tk.t = "num" /\ kind \notin {"const", "uconst", "op"})
       \/ IsOp(tk, "(")
      THEN Bind(ParseRule2(ts, l.p), LAMBDA r :
             IF r.st # "ok" THEN Failed
             ELSE ImplicitLoop(ts, Node(Mul(l.v, r.v), r.p, "op"), r.kind, r.p))
      ELSE l)

ParseImplicitMultiplication(ts, p) ==
  Bind(ParseRule2(ts, p), LAMBDA l :
    IF l.st # "ok" THEN Failed ELSE ImplicitLoop(ts, l, l.kind, l.p))

\* Operand of the token c applied to x and y.
Apply(c, x, y) ==
  CASE c = "*" -> Mul(x, y) [] c = "/" -> Div(x, y) [] c = "%" -> Mod(x, y)
    [] c = "+" -> Add(x, y) [] c = "-" -> Sub(x, y)

\* * / % chains.  A "%" that no operand follows is a percentage (x/100).
MultiplyDivideLoop(ts, acc, p) ==
  Bind3(acc, Tok(ts, p), Tok(ts, p + 1), LAMBDA l, tk, nx :
    IF tk.t = "op" /\ tk.c \in {"*", "/", "%"}
      THEN IF tk.c = "%" /\ (nx.t = "end" \/ (nx.t = "op" /\ nx.c # "("))
        THEN IF nx.t = "op" /\ nx.c \in {"*", "/", "%"}
          THEN Bind(ParseImplicitMultiplication(ts, l.p + 2), LAMBDA r :
                 IF r.st # "ok" THEN Failed
                 ELSE MultiplyDivideLoop(ts,
                        Node(Apply(nx.c, Div(l.v, Num(100)), r.v), r.p, "op"),
                        r.p))
          ELSE [Node(Div(l.v, Num(100)), l.p + 1, "op") EXCEPT !.pct = TRUE]
        ELSE Bind(ParseImplicitMultiplication(ts, l.p + 1), LAMBDA r :
               IF r.st # "ok" THEN Failed
               ELSE MultiplyDivideLoop(ts,
                      Node(Apply(tk.c, l.v, r.v), r.p, "op"), r.p))
      ELSE l)

ParseMultiplyDivide(ts, p) ==
  Bind(ParseImplicitMultiplication(ts, p), LAMBDA l :
    IF l.st # "ok" THEN Failed ELSE MultiplyDivideLoop(ts, l, l.p))

\* + - chains; a percentage on the right is a percentage of the left side.
AddSubtractLoop(ts, acc, p) ==
  Bind2(acc, Tok(ts, p), LAMBDA l, tk :
    IF IsOp(tk, "+") \/ IsOp(tk, "-")
      THEN Bind(ParseMultiplyDivide(ts, l.p + 1), LAMBDA r :
             IF r.st # "ok" THEN Failed
             ELSE AddSubtractLoop(ts,
                    Node(Apply(tk.c, l.v,
                               IF r.pct THEN Mul(l.v, r.v) ELSE r.v),
                         r.p, "op"),
                    r.p))
      ELSE l)

ParseAddSubtract(ts, p) ==
  Bind(ParseMultiplyDivide(ts, p), LAMBDA l :
    IF l.st # "ok" THEN Failed ELSE AddSubtractLoop(ts, l, l.p))

\* evaluate(expr): the value, Throw for a syntax or evaluation error; the
\* empty expression evaluates to undefined, which Number() turns into NaN.
evaluateTokens(tokens) ==
  Bind(tokens, LAMBDA ts :
    IF \E j \in 1..Len(ts) : ts[j].t = "throw" THEN Throw
    ELSE IF ts = <<>> THEN NaN
    ELSE Bind(ParseAddSubtract(ts, 1), LAMBDA r :
           IF r.st # "ok" \/ r.p # Len(ts) + 1 THEN Throw ELSE r.v))

evaluate(expr) == evaluateTokens(Tokenize(expr, 1))

Null == [k |-> "null"]

\* Variant of evaluateExpressionValue: a value that is not finite is returned.
evaluateExpressionUnchecked(expr) ==
  Bind(evaluate(sanitizeExpressionForEval(expr)), LAMBDA val :
    IF val = Throw THEN Null ELSE val)

\* number, or null when evaluation throws or the value is not finite.
evaluateExpressionValue(expr) ==
  Bind(evaluate(sanitizeExpressionForEval(expr)), LAMBDA val :
    IF val = Throw THEN Null
    ELSE IF val.k \in {"nan", "inf"} THEN Null
    ELSE val)

(* --------------------------- number formatting ------------------------- *)

\* Decimal digits of n >= 0.
NatToString[n \in Nat] ==
  IF n < 10 THEN <<DigitChar(n)>>
  ELSE NatToString[n \div 10] \o <<DigitChar(n % 10)>>

\* String(n) for an integer n.
IntToString(n) == IF n < 0 THEN <<"-">> \o NatToString[-n] ELSE NatToString[n]

\* [f, r]: the first k decimals of r/d as an integer, and what remains.
Decimals[r \in Nat, d \in Nat, k \in Nat, f \in Nat] ==
  IF k = 0 THEN [f |-> f, r |-> r]
  ELSE Decimals[(r * 10) % d, d, k - 1, f * 10 + (r * 10) \div d]

\* The k decimals f, zero-padded on the left.
PadDigits[f \in Nat, k \in Nat] ==
  IF k = 0 THEN <<>> ELSE PadDigits[f \div 10, k - 1] \o <<DigitChar(f % 10)>>

RECURSIVE StripTrailingZeros(_)
StripTrailingZeros(s) ==
  Bind(s, LAMBDA t :
    IF t # <<>> /\ t[Len(t)] = "0"
      THEN StripTrailingZeros(SubSeq(t, 1, Len(t) - 1)) ELSE t)

\* Fractional digits the display keeps.
FractionDigits == 6

\* The decimal string of ip + f / 10^FractionDigits, signed when not zero.
FixedString(negative, ip, f) ==
  (IF negative /\ (ip # 0 \/ f # 0) THEN <<"-">> ELSE <<>>)
  \o NatToString[ip]
  \o (IF f = 0 THEN <<>>
      ELSE <<".">> \o StripTrailingZeros(PadDigits[f, FractionDigits]))

\* parseFloat(num.toFixed(6)).toString() for a finite num: rounded to six
\* decimals (a tie rounds away from zero), trailing zeros and a bare sign
\* of zero dropped.
ToFixedString(v) ==
  Bind2(v, Decimals[Abs(v.n) % v.d, v.d, FractionDigits, 0], LAMBDA x, dec :
    Bind(IF 2 * dec.r >= x.d THEN dec.f + 1 ELSE dec.f, LAMBDA f0 :
      IF f0 = Pow10[FractionDigits]
        THEN FixedString(x.n < 0, Abs(x.n) \div x.d + 1, 0)
        ELSE FixedString(x.n < 0, Abs(x.n) \div x.d, f0)))

NaNString == <<"N", "a", "N">>

InfinityString == <<"I", "n", "f", "i", "n", "i", "t", "y">>

\* String(out) for an integer, an infinity or NaN.
NumberAsString(out) ==
  Bind(out, LAMBDA v :
    IF v.k = "inf"
      THEN (IF v.s < 0 THEN <<"-">> ELSE <<>>) \o InfinityString
    ELSE IF v.k = "nan" THEN NaNString
    ELSE IntToString(v.n))

\* p zeros.
Zeros[p \in Nat] == [i \in 1..p |-> "0"]

\* String(num) for the integer n * 10^p: all its digits below 1e21, and from
\* there on the first digit, the other digits after a dot, and e+exponent.
LargeIntegerString(n, p) ==
  Bind(NatToString[Abs(n)], LAMBDA ds :
    (IF n < 0 THEN <<"-">> ELSE <<>>)
    \o (IF p + Len(ds) - 1 < 21 THEN ds \o Zeros[p]
        ELSE <<Head(ds)>>
             \o (IF Len(ds) > 1 THEN <<".">> \o Tail(ds) ELSE <<>>)
             \o <<"e", "+">> \o NatToString[p + Len(ds) - 1]))

\* formatNumber: "NaN" for a non-finite value, the integer when the value is
\* one (a rational with a denominator up to MaxMagnitude that is within
\* 1e-12 of an integer is that integer), else six decimals.
formatNumber(num) ==
  Bind(num, LAMBDA v :
    IF ~IsFiniteValue(v) THEN NaNString
    ELSE IF v.k = "tiny" THEN <<"0">>
    ELSE IF v.k = "sci" THEN LargeIntegerString(v.n, v.p)
    ELSE IF v.d = 1 THEN IntToString(v.n)
    ELSE ToFixedString(v))

(* ------------------------- math utility library ------------------------ *)
(* Math.sin, Math.cos, Math.tan, Math.sqrt and Math.exp are tabulated to   *)
(* eight significant digits on the arguments the model explores; elsewhere *)
(* they are OutOfRange.                                                    *)

\* x in units of thirty degrees (pi/6).
ThirtyDegrees(x) == Div(Mul(x, Num(6)), PiValue)

\* Arguments in radians the tables carry.
RadianArgs == {1, 2, 3, 30}

\* Largest multiple of thirty degrees the tables carry (ten turns).
IsTabulatedTurn(k) == IsIntegerValue(k) /\ Abs(k.n) <= 120

SinDeg(k) ==
  CASE k = 0 -> Num(0) [] k = 1 -> Rat(1, 2) [] k = 2 -> Rat(86602540, 100000000)
    [] k = 3 -> Num(1) [] k = 4 -> Rat(86602540, 100000000) [] k = 5 -> Rat(1, 2)
    [] k = 6 -> Tiny [] k = 7 -> Rat(-1, 2) [] k = 8 -> Rat(-86602540, 100000000)
    [] k = 9 -> Num(-1) [] k = 10 -> Rat(-86602540, 100000000)
    [] k = 11 -> Rat(-1, 2)

SinRad(r) ==
  CASE r = 1 -> Rat(84147098, 100000000) [] r = 2 -> Rat(90929743, 100000000)
    [] r = 3 -> Rat(14112001, 100000000) [] r = 30 -> Rat(-98803162, 100000000)

CosDeg(k) ==
  CASE k = 0 -> Num(1) [] k = 1 -> Rat(86602540, 100000000) [] k = 2 -> Rat(1, 2)
    [] k = 3 -> Tiny [] k = 4 -> Rat(-1, 2) [] k = 5 -> Rat(-86602540, 100000000)
    [] k = 6 -> Num(-1) [] k = 7 -> Rat(-86602540, 100000000) [] k = 8 -> Rat(-1, 2)
    [] k = 9 -> Tiny [] k = 10 -> Rat(1, 2) [] k = 11 -> Rat(86602540, 100000000)

CosRad(r) ==
  CASE r = 1 -> Rat(54030231, 100000000) [] r = 2 -> Rat(-41614684, 100000000)
    [] r = 3 -> Rat(-98999250, 100000000) [] r = 30 -> Rat(15425145, 100000000)

TanDeg(k) ==
  CASE k = 0 -> Num(0) [] k = 1 -> Rat(57735027, 100000000)
    [] k = 2 -> Rat(17320508, 10000000) [] k = 3 -> Huge
    [] k = 4 -> Rat(-17320508, 10000000) [] k = 5 -> Rat(-57735027, 100000000)
    [] k = 6 -> Tiny [] k = 7 -> Rat(57735027, 100000000)
    [] k = 8 -> Rat(17320508, 10000000) [] k = 9 -> Huge
    [] k = 10 -> Rat(-17320508, 10000000) [] k = 11 -> Rat(-57735027, 100000000)

TanRad(r) ==
  CASE r = 1 -> Rat(15574077, 10000000) [] r = 2 -> Rat(-21850399, 10000000)
    [] r = 3 -> Rat(-14254654, 100000000) [] r = 30 -> Rat(-64053312, 10000000)

\* The table of f ("sin", "cos" or "tan") at k times thirty degrees.
ByDeg(f, k) ==
  CASE f = "sin" -> SinDeg(k) [] f = "cos" -> CosDeg(k) [] f = "tan" -> TanDeg(k)

\* The table of f at r radians.
ByRad(f, r) ==
  CASE f = "sin" -> SinRad(r) [] f = "cos" -> CosRad(r) [] f = "tan" -> TanRad(r)

\* The tabulated function f at x: by multiples of thirty degrees when x is
\* one, by radians when x is a tabulated integer.
Tabulated(x, f) ==
  Bind(x, LAMBDA a :
    IF a.k # "num" THEN OutOfRange
    ELSE IF a.n = 0 THEN ByDeg(f, 0)
    ELSE Bind(ThirtyDegrees(a), LAMBDA turn :
           IF IsTabulatedTurn(turn) THEN ByDeg(f, turn.n % 12)
           ELSE IF a.d = 1 /\ a.n \in RadianArgs THEN ByRad(f, a.n)
           ELSE OutOfRange))

MathSin(x) == Tabulated(x, "sin")
MathCos(x) == Tabulated(x, "cos")
MathTan(x) == Tabulated(x, "tan")

\* Integer square root of n >= 0, searched between lo and hi.
ISqrtIn[n \in Nat, lo \in Nat, hi \in Nat] ==
  IF lo >= hi THEN lo
  ELSE IF ((lo + hi + 1) \div 2) * ((lo + hi + 1) \div 2) <= n
    THEN ISqrtIn[n, (lo + hi + 1) \div 2, hi]
    ELSE ISqrtIn[n, lo, (lo + hi + 1) \div 2 - 1]

ISqrt(n) == ISqrtIn[n, 0, 10001]

IsSquare(n) == Bind(ISqrt(n), LAMBDA r : r * r = n)

\* Math.sqrt: NaN below zero, exact on squares of rationals, tabulated on 2, 3.
MathSqrt(x) ==
  Bind(x, LAMBDA a :
    IF a.k # "num" THEN OutOfRange
    ELSE IF a.n < 0 THEN NaN
    ELSE IF IsSquare(a.n) /\ IsSquare(a.d) THEN Rat(ISqrt(a.n), ISqrt(a.d))
    ELSE IF a = Num(2) THEN Rat(14142136, 10000000)
    ELSE IF a = Num(3) THEN Rat(17320508, 10000000)
    ELSE OutOfRange)

\* Math.exp: 1 at zero, Infinity from 710 on, tabulated on 1, 2, 3.
MathExp(x) ==
  Bind(x, LAMBDA a :
    IF a.k # "num" THEN OutOfRange
    ELSE IF a.n = 0 THEN Num(1)
    ELSE IF a.n \div a.d >= 710 THEN Infinity(1)
    ELSE IF a = Num(1) THEN Rat(27182818, 10000000)
    ELSE IF a = Num(2) THEN Rat(73890561, 10000000)
    ELSE IF a = Num(3) THEN Rat(20085537, 1000000)
    ELSE OutOfRange)

\* Math.pow(base, exponent) for an integer exponent or the exponent 1/2.
MathPow(base, exponent) ==
  Bind2(base, exponent, LAMBDA b, x :
    IF b.k # "num" \/ x.k # "num" THEN OutOfRange
    ELSE IF x.d = 1 /\ x.n >= 0 /\ x.n <= MaxExp10 THEN PowInt(b, x.n)
    ELSE IF x.d = 1 /\ x.n < 0 /\ x.n >= -MaxExp10
      THEN Div(Num(1), PowInt(b, -x.n))
    ELSE IF x = Rat(1, 2) THEN MathSqrt(b)
    ELSE OutOfRange)

sin(x) == MathSin(x)

cos(x) == MathCos(x)

\* tan: NaN where the tangent exceeds 1e15 in magnitude.
tan(x) ==
  Bind(MathTan(x), LAMBDA result : IF result.k = "huge" THEN NaN ELSE result)

\* factorial: NaN below zero, 1 at 0 and 1, else n * factorial(n - 1).
\* From 171 on the product of an integer n exceeds the largest double and is
\* Infinity.  (From 13 to 170 the product leaves the model's integer range,
\* and a recursion several thousand calls deep is not explored.)
RECURSIVE factorial(_)
factorial(n) ==
  Bind(n, LAMBDA a :
    IF a.k # "num" THEN OutOfRange
    ELSE IF a.n < 0 THEN NaN
    ELSE IF a = Num(0) \/ a = Num(1) THEN Num(1)
    ELSE IF a.d = 1 /\ a.n > 170 /\ a.n <= 5000 THEN Infinity(1)
    ELSE IF a.n \div a.d > 12 THEN OutOfRange
    ELSE Mul(a, factorial(Sub(a, Num(1)))))

power(base, exponent) == MathPow(base, exponent)

squareRoot(n) ==
  Bind(n, LAMBDA a : IF a.k = "num" /\ a.n < 0 THEN NaN ELSE MathSqrt(a))

reciprocal(n) ==
  Bind(n, LAMBDA a : IF a = Num(0) THEN NaN ELSE Div(Num(1), a))

(* -------------------------- library functions -------------------------- *)

\* Result of a function that also reports a message.
Reported(value, toast) == [value |-> value, toast |-> toast]

\* Variant of solveQuadraticEquation: a discriminant of zero is reported as
\* no real root.
solveQuadraticEquationStrict(a, b, c) ==
  Bind(Sub(Mul(b, b), Mul(Mul(Num(4), a), c)), LAMBDA discriminant :
    IF a = Num(0) THEN Reported(Null, "not quadratic")
    ELSE IF discriminant.k # "num" THEN Reported(OutOfRange, "none")
    ELSE IF discriminant.n <= 0 THEN Reported(Null, "no real roots")
    ELSE Bind(MathSqrt(discriminant), LAMBDA sqrtDiscriminant :
           Reported([x1 |-> Div(Add(Neg(b), sqrtDiscriminant), Mul(Num(2), a)),
                     x2 |-> Div(Sub(Neg(b), sqrtDiscriminant), Mul(Num(2), a))],
                    "none")))

\* solveQuadraticEquation: null with a message when a is zero or the
\* discriminant negative, else the roots { x1, x2 }.
solveQuadraticEquation(a, b, c) ==
  Bind(Sub(Mul(b, b), Mul(Mul(Num(4), a), c)), LAMBDA discriminant :
    IF a = Num(0) THEN Reported(Null, "not quadratic")
    ELSE IF discriminant.k # "num" THEN Reported(OutOfRange, "none")
    ELSE IF discriminant.n < 0 THEN Reported(Null, "no real roots")
    ELSE IF discriminant.n = 0
      THEN Bind(Div(Neg(b), Mul(Num(2), a)), LAMBDA x :
             Reported([x1 |-> x, x2 |-> x], "none"))
    ELSE Bind(MathSqrt(discriminant), LAMBDA sqrtDiscriminant :
           Reported([x1 |-> Div(Add(Neg(b), sqrtDiscriminant), Mul(Num(2), a)),
                     x2 |-> Div(Sub(Neg(b), sqrtDiscriminant), Mul(Num(2), a))],
                    "none")))

\* '0123456789ABCDEF'
hexDigits == <<"0", "1", "2", "3", "4", "5", "6", "7", "8", "9",
               "A", "B", "C", "D", "E", "F">>

\* The while loop of decimalToBinary and decimalToHex: the digits of n > 0
\* in the radix, most significant first (none for n = 0).
EncodeLoop[n \in Nat, radix \in Nat] ==
  IF n = 0 THEN <<>>
  ELSE EncodeLoop[n \div radix, radix] \o <<hexDigits[(n % radix) + 1]>>

\* Variant of decimalToBinary: zero is not told apart, and gets no digit.
decimalToBinaryNoZero(num) ==
  Bind(num, LAMBDA v :
    IF v.n < 0 THEN <<"-">> \o EncodeLoop[Floor(Neg(v)), 2]
    ELSE EncodeLoop[Floor(v), 2])

\* decimalToBinary, for a finite num.
RECURSIVE decimalToBinary(_)
decimalToBinary(num) ==
  Bind(num, LAMBDA v :
    IF v.n < 0 THEN <<"-">> \o decimalToBinary(Neg(v))
    ELSE IF v.n = 0 THEN <<"0">>
    ELSE EncodeLoop[Floor(v), 2])

\* decimalToHex, for a finite num.
RECURSIVE decimalToHex(_)
decimalToHex(num) ==
  Bind(num, LAMBDA v :
    IF v.n < 0 THEN <<"-">> \o decimalToHex(Neg(v))
    ELSE IF v.n = 0 THEN <<"0">>
    ELSE EncodeLoop[Floor(v), 16])

\* Value of a hexadecimal digit, in either case.
HexDigitValue(c) ==
  IF IsDigit(c) THEN DigitValue(c)
  ELSE CASE c \in {"A", "a"} -> 10 [] c \in {"B", "b"} -> 11
         [] c \in {"C", "c"} -> 12 [] c \in {"D", "d"} -> 13
         [] c \in {"E", "e"} -> 14 [] c \in {"F", "f"} -> 15

\* [0-9A-Fa-f]
IsHexDigit(c) ==
  IsDigit(c) \/ c \in {"A", "B", "C", "D", "E", "F", "a", "b", "c", "d", "e", "f"}

\* parseInt(s, radix) for a string of digits of the radix.
RECURSIVE ParseInt(_, _)
ParseInt(s, radix) ==
  Bind(s, LAMBDA t :
    IF Len(t) = 1 THEN HexDigitValue(t[1])
    ELSE ParseInt(SubSeq(t, 1, Len(t) - 1), radix) * radix
         + HexDigitValue(t[Len(t)]))

\* binaryToDecimal: NaN unless the string matches /^[01]+$/.
binaryToDecimal(binary) ==
  Bind(binary, LAMBDA t :
    IF t = <<>> \/ \E j \in 1..Len(t) : t[j] \notin {"0", "1"} THEN NaN
    ELSE Num(ParseInt(t, 2)))

\* hexToDecimal: NaN unless the string matches /^[0-9A-Fa-f]+$/.
hexToDecimal(hex) ==
  Bind(hex, LAMBDA t :
    IF t = <<>> \/ \E j \in 1..Len(t) : ~IsHexDigit(t[j]) THEN NaN
    ELSE Num(ParseInt(t, 16)))

(* ------------------------ calculator state machine --------------------- *)

VARIABLES
  input,           \* the text being edited
  result,          \* the displayed result, or NULL
  lastExpression,  \* the expression shown above the result, or NULL
  angleMode,       \* "deg" or "rad"
  justComputed     \* the last event computed a result

vars == <<input, result, lastExpression, angleMode, justComputed>>

\* null, told apart from every string (no string holds the character "null").
NULL == <<"null">>

\* The marker strings, one name per Chinese character.
ErrorMarker == <<"cuo", "wu">>
InvalidInputMarker == <<"shu", "ru", "wu", "xiao">>
CalcErrorMarker == <<"ji", "suan", "cuo", "wu">>
NonNegIntegerMarker == <<"qing", "shu", "ru", "fei", "fu", "zheng", "shu">>
InvalidOrZeroMarker == <<"shu", "ru", "wu", "xiao", "huo", "chu", "yi", "0">>

\* The keys that call handleInput, as each specification presses them: the
\* arithmetic keys, the digit, dot and parenthesis keys, and the keys that
\* chain an operator with a constant.
ArithmeticKeys == {"2", "3", "+"}
SymbolKeys == {"0", "2", "3", ".", "(", ")"}
ChainKeys == {"2", "+"}

\* /^[+\-*/%]$/.test(value)
IsOperatorKey(value) == value \in {"+", "-", "*", "/", "%"}

\* Variant of IsDigitOrDotOrParen: the parentheses are left out of the test.
IsDigitOrDot(value) == IsDigit(value) \/ value = "."

\* /^[0-9.]$/.test(value) || value === '(' || value === ')'
IsDigitOrDotOrParen(value) ==
  IsDigit(value) \/ value = "." \/ value = "(" \/ value = ")"

Init ==
  /\ input = <<>>
  /\ result = NULL
  /\ lastExpression = NULL
  /\ angleMode = "deg"
  /\ justComputed = FALSE

\* Variant of ResultOrInput: the text is the base even when a result is shown.
InputAsBase == input

\* result ?? input
ResultOrInput == IF result # NULL THEN result ELSE input

\* Variant of handleInput: chaining an operator clears lastExpression too.
handleInputClearsLabel(value) ==
  IF justComputed /\ IsOperatorKey(value)
    THEN /\ Len(ResultOrInput) < MaxLen
         /\ input' = Append(ResultOrInput, value)
         /\ justComputed' = FALSE
         /\ result' = NULL
         /\ lastExpression' = NULL
         /\ UNCHANGED angleMode
  ELSE IF justComputed /\ IsDigitOrDotOrParen(value)
    THEN /\ input' = <<value>>
         /\ justComputed' = FALSE
         /\ result' = NULL
         /\ lastExpression' = NULL
         /\ UNCHANGED angleMode
  ELSE /\ Len(input) < MaxLen
       /\ input' = Append(input, value)
       /\ result' = NULL
       /\ justComputed' = FALSE
       /\ UNCHANGED <<lastExpression, angleMode>>

handleInput(value) ==
  IF justComputed /\ IsOperatorKey(value)
    THEN /\ Len(ResultOrInput) < MaxLen
         /\ input' = Append(ResultOrInput, value)
         /\ justComputed' = FALSE
         /\ result' = NULL
         /\ UNCHANGED <<lastExpression, angleMode>>
  ELSE IF justComputed /\ IsDigitOrDotOrParen(value)
    THEN /\ input' = <<value>>
         /\ justComputed' = FALSE
         /\ result' = NULL
         /\ lastExpression' = NULL
         /\ UNCHANGED angleMode
  ELSE /\ Len(input) < MaxLen
       /\ input' = Append(input, value)
       /\ result' = NULL
       /\ justComputed' = FALSE
       /\ UNCHANGED <<lastExpression, angleMode>>

\* Variant of handleClear: the angle mode is reset as well.
handleClearResetsMode ==
  /\ input' = <<>>
  /\ result' = NULL
  /\ lastExpression' = NULL
  /\ justComputed' = FALSE
  /\ angleMode' = "deg"

handleClear ==
  /\ input' = <<>>
  /\ result' = NULL
  /\ lastExpression' = NULL
  /\ justComputed' = FALSE
  /\ UNCHANGED angleMode

\* prev.slice(0, -1)
DropLast(s) == IF s = <<>> THEN s ELSE SubSeq(s, 1, Len(s) - 1)

\* Variant of handleBackspace: after a computation it restores the
\* expression that was evaluated.
handleBackspaceRestores ==
  IF justComputed
    THEN /\ input' = (IF lastExpression # NULL THEN lastExpression ELSE <<>>)
         /\ result' = NULL
         /\ lastExpression' = NULL
         /\ justComputed' = FALSE
         /\ UNCHANGED angleMode
    ELSE /\ input' = DropLast(input)
         /\ UNCHANGED <<result, lastExpression, angleMode, justComputed>>

handleBackspace ==
  IF justComputed
    THEN /\ input' = <<>>
         /\ result' = NULL
         /\ lastExpression' = NULL
         /\ justComputed' = FALSE
         /\ UNCHANGED angleMode
    ELSE /\ input' = DropLast(input)
         /\ UNCHANGED <<result, lastExpression, angleMode, justComputed>>

\* input.trim() === '' (an empty string is falsy as well)
IsBlank(s) == \A j \in 1..Len(s) : IsSpace(s[j])

\* Variant of handleEquals: the sanitized expression is shown as lastExpression.
handleEqualsShowsSanitized ==
  IF IsBlank(input)
    THEN /\ result' = NULL
         /\ lastExpression' = NULL
         /\ justComputed' = FALSE
         /\ UNCHANGED <<input, angleMode>>
    ELSE \E value \in {evaluateExpressionValue(input)} :
           IF value = Null
             THEN /\ result' = ErrorMarker
                  /\ lastExpression' = input
                  /\ justComputed' = TRUE
                  /\ UNCHANGED <<input, angleMode>>
             ELSE /\ value # OutOfRange
                  /\ \E formatted \in {formatNumber(value)} :
                       /\ lastExpression' = sanitizeExpressionForEval(input)
                       /\ result' = formatted
                       /\ input' = formatted
                       /\ justComputed' = TRUE
                       /\ UNCHANGED angleMode

\* Variant of handleEquals: on a blank text only the result is cleared.
handleEqualsBlankKeepsLabel ==
  IF IsBlank(input)
    THEN /\ result' = NULL
         /\ justComputed' = FALSE
         /\ UNCHANGED <<input, lastExpression, angleMode>>
    ELSE \E value \in {evaluateExpressionValue(input)} :
           IF value = Null
             THEN /\ result' = ErrorMarker
                  /\ lastExpression' = input
                  /\ justComputed' = TRUE
                  /\ UNCHANGED <<input, angleMode>>
             ELSE /\ value # OutOfRange
                  /\ \E formatted \in {formatNumber(value)} :
                       /\ lastExpression' = input
                       /\ result' = formatted
                       /\ input' = formatted
                       /\ justComputed' = TRUE
                       /\ UNCHANGED angleMode

handleEquals ==
  IF IsBlank(input)
    THEN /\ result' = NULL
         /\ lastExpression' = NULL
         /\ justComputed' = FALSE
         /\ UNCHANGED <<input, angleMode>>
    ELSE \E value \in {evaluateExpressionValue(input)} :
           IF value = Null
             THEN /\ result' = ErrorMarker
                  /\ lastExpression' = input
                  /\ justComputed' = TRUE
                  /\ UNCHANGED <<input, angleMode>>
             ELSE /\ value # OutOfRange
                  /\ \E formatted \in {formatNumber(value)} :
                       /\ lastExpression' = input
                       /\ result' = formatted
                       /\ input' = formatted
                       /\ justComputed' = TRUE
                       /\ UNCHANGED angleMode

\* Variant of toggleAngleMode: the switch only ever selects degrees.
toggleAngleModeToDegrees ==
  /\ angleMode' = "deg"
  /\ UNCHANGED <<input, result, lastExpression, justComputed>>

toggleAngleMode ==
  /\ angleMode' = IF angleMode = "deg" THEN "rad" ELSE "deg"
  /\ UNCHANGED <<input, result, lastExpression, justComputed>>

\* Math.PI
MathPI == PiValue

\* The function each trigonometric button passes to calculateTrigFunction.
TrigLabels == {<<"s", "i", "n">>, <<"c", "o", "s">>, <<"t", "a", "n">>,
               <<"c", "o", "t">>}

TrigFunction(label, x) ==
  CASE label = <<"s", "i", "n">> -> sin(x)
    [] label = <<"c", "o", "s">> -> cos(x)
    [] label = <<"t", "a", "n">> -> tan(x)
    [] label = <<"c", "o", "t">> -> Div(Num(1), tan(x))

\* Variant of ToAngle: the value is taken as radians in either mode.
ToAngleAsRadians(val) == val

\* angleMode === 'deg' ? (val * Math.PI) / 180 : val
ToAngle(val) ==
  IF angleMode = "deg" THEN Div(Mul(val, MathPI), Num(180)) ELSE val

\* `${label}(${input}${angleMode === 'deg' ? 'DEG' : ''})`
TrigLabel(label) ==
  label \o <<"(">> \o input
        \o (IF angleMode = "deg" THEN <<"DEG">> ELSE <<>>) \o <<")">>

\* (No function passed in throws, so the catch branch is never taken.)
calculateTrigFunction(label) ==
  \E val \in {evaluateExpressionValue(input)} :
    IF val = Null
      THEN /\ result' = InvalidInputMarker
           /\ lastExpression' = NULL
           /\ justComputed' = TRUE
           /\ UNCHANGED <<input, angleMode>>
      ELSE /\ Len(input) <= MaxLen
           /\ val # OutOfRange
           /\ \E out \in {TrigFunction(label, ToAngle(val))} :
                /\ out # OutOfRange
                /\ \E formatted \in {formatNumber(out)} :
                     /\ lastExpression' = TrigLabel(label)
                     /\ result' = formatted
                     /\ input' = formatted
                     /\ justComputed' = TRUE
                     /\ UNCHANGED angleMode

\* The success path the unary handlers share: show the label and the result,
\* and make the result the next input.
ShowResult(exprLabel, formatted) ==
  /\ lastExpression' = exprLabel
  /\ result' = formatted
  /\ input' = formatted
  /\ justComputed' = TRUE
  /\ UNCHANGED angleMode

\* Variant of ShowMarker: the text is cleared when the marker is shown.
ShowMarkerClearsInput(marker) ==
  /\ result' = marker
  /\ justComputed' = TRUE
  /\ input' = <<>>
  /\ UNCHANGED <<lastExpression, angleMode>>

\* Variant of ShowMarker: the marker is shown without justComputed being set.
ShowMarkerStaysEditing(marker) ==
  /\ result' = marker
  /\ UNCHANGED <<input, lastExpression, angleMode, justComputed>>

\* The early return of the unary handlers: only the marker is shown.
ShowMarker(marker) ==
  /\ result' = marker
  /\ justComputed' = TRUE
  /\ UNCHANGED <<input, lastExpression, angleMode>>

handleFactorial ==
  \E val \in {evaluateExpressionValue(input)} :
    IF val = Null \/ (val.k \notin {"oor", "sci"}
                      /\ (~IsIntegerValue(val) \/ val.n < 0))
      THEN ShowMarker(NonNegIntegerMarker)
      ELSE /\ Len(input) <= MaxLen
           /\ val.k \notin {"oor", "sci"}
           /\ \E out \in {factorial(val)} :
                /\ out # OutOfRange
                /\ ShowResult(IntToString(val.n) \o <<"!">>,
                              NumberAsString(out))

handleSquareRoot ==
  \E val \in {evaluateExpressionValue(input)} :
    IF val = Null
      THEN ShowMarker(InvalidInputMarker)
      ELSE /\ Len(input) <= MaxLen
           /\ val # OutOfRange
           /\ \E out \in {squareRoot(val)} :
                /\ out # OutOfRange
                /\ ShowResult(<<"SQRT", "(">> \o input \o <<")">>,
                              formatNumber(out))

handleReciprocal ==
  \E val \in {evaluateExpressionValue(input)} :
    IF val = Null \/ val = Num(0)
      THEN ShowMarker(InvalidOrZeroMarker)
      ELSE /\ Len(input) <= MaxLen
           /\ val # OutOfRange
           /\ \E out \in {reciprocal(val)} :
                /\ out # OutOfRange
                /\ ShowResult(<<"1", "/", "(">> \o input \o <<")">>,
                              formatNumber(out))

\* The exponents of the power buttons: 2, 3, -1 and 0.5.
PowerExponents == {Num(2), Num(3), Num(-1), Rat(1, 2)}

\* `${exponent}`
NumberToString(v) == formatNumber(v)

handlePower(exponent) ==
  \E val \in {evaluateExpressionValue(input)} :
    IF val = Null
      THEN ShowMarker(InvalidInputMarker)
      ELSE /\ Len(input) <= MaxLen
           /\ val # OutOfRange
           /\ \E out \in {power(val, exponent)} :
                /\ out # OutOfRange
                /\ ShowResult(<<"(">> \o input \o <<")", "^">> \o NumberToString(exponent),
                              formatNumber(out))

\* The e^x button.
handleExp ==
  \E val \in {evaluateExpressionValue(input)} :
    IF val = Null
      THEN ShowMarker(InvalidInputMarker)
      ELSE /\ Len(input) <= MaxLen
           /\ val # OutOfRange
           /\ \E out \in {MathExp(val)} :
                /\ out # OutOfRange
                /\ ShowResult(<<"e", "^", "(">> \o input \o <<")">>,
                              formatNumber(out))

\* handleInsertPi and handleInsertE: the name of the constant is typed.
ConstantNames == {<<"p", "i">>, <<"e">>}
ChainConstants == {<<"e">>}

\* Variant of handleInsertConstant: after a computation the name is appended
\* to the text that holds the result.
handleInsertConstantAppends(name) ==
  IF justComputed
    THEN /\ Len(input) + Len(name) <= MaxLen
         /\ input' = input \o name
         /\ justComputed' = FALSE
         /\ result' = NULL
         /\ lastExpression' = NULL
         /\ UNCHANGED angleMode
    ELSE /\ Len(input) + Len(name) <= MaxLen
         /\ input' = input \o name
         /\ UNCHANGED <<result, lastExpression, angleMode, justComputed>>

handleInsertConstant(name) ==
  IF justComputed
    THEN /\ input' = name
         /\ justComputed' = FALSE
         /\ result' = NULL
         /\ lastExpression' = NULL
         /\ UNCHANGED angleMode
    ELSE /\ Len(input) + Len(name) <= MaxLen
         /\ input' = input \o name
         /\ UNCHANGED <<result, lastExpression, angleMode, justComputed>>

(* --------------------------- library caller --------------------------- *)
(* A caller of the pure functions: it holds an operand, calls a function   *)
(* on it and keeps what the call returned.                                  *)

VARIABLES
  operand,         \* what the caller works on, or NoOperand
  call,            \* the last call made: [fn, arg], or NoCall
  returned         \* what the last call returned, or NoCall

libraryVars == <<operand, call, returned>>

NoOperand == [k |-> "none"]
NoCall == [fn |-> "none"]

\* No caller of the library is at work.
LibraryIdle ==
  /\ operand = NoOperand
  /\ call = NoCall
  /\ returned = NoCall

(* ---------------------------- graphing tool --------------------------- *)
(* The GraphingTool component: the plotted data is recomputed by a timer    *)
(* that the effect on [expression, zoom] sets, and by the draw button.      *)

VARIABLES
  expression,      \* the function typed into the graphing tool
  zoom,            \* the zoom factor
  data,            \* the plotted points
  error,           \* the error shown, or NULL
  pending,         \* the timers set and neither fired nor cleared
  effectTimer,     \* the timer the last run of the effect set (its t)
  elapsed          \* time since expression or zoom last changed

graphVars == <<expression, zoom, data, error, pending, effectTimer, elapsed>>

allVars == <<vars, graphVars, libraryVars>>

\* The delay of the redraw timer, in milliseconds.
DebounceDelay == 300

\* Time passes in steps of TimeStep milliseconds, and elapsed is followed
\* up to MaxElapsed.
TimeStep == 100
MaxElapsed == 400

\* Most timers pending at once (a change is disabled beyond it).
MaxTimers == 3

\* Steps the model samples a function in (the component samples 1200).
SampleSteps == 4

\* String(expression).trim()
RECURSIVE Trim(_)
Trim(s) ==
  Bind(s, LAMBDA t :
    IF t # <<>> /\ IsSpace(t[1]) THEN Trim(Tail(t))
    ELSE IF t # <<>> /\ IsSpace(t[Len(t)]) THEN Trim(SubSeq(t, 1, Len(t) - 1))
    ELSE t)

\* expr.replace(/^y\s*=\s*/, '')
StripYEquals(s) ==
  Bind2(s, SkipSpaces(s, 2), LAMBDA t, j :
    IF At(t, 1) = "y" /\ At(t, j) = "="
      THEN SubSeq(t, SkipSpaces(t, j + 1), Len(t))
      ELSE t)

\* expr.replace(/(\d)\s*x/g, '$1*x'), scanning from i.
RECURSIVE InsertTimesBeforeX(_, _)
InsertTimesBeforeX(s, i) ==
  Bind2(s, i, LAMBDA t, k :
    Bind(SkipSpaces(t, k + 1), LAMBDA j :
      IF k > Len(t) THEN <<>>
      ELSE IF IsDigit(t[k]) /\ At(t, j) = "x"
        THEN <<t[k], "*", "x">> \o InsertTimesBeforeX(t, j + 1)
        ELSE <<t[k]>> \o InsertTimesBeforeX(t, k + 1)))

\* The tokens with the symbol x bound to a value: the scope { x }.
WithScope(ts, x) ==
  Bind2(ts, x, LAMBDA t, v :
    [j \in 1..Len(t) |->
       IF t[j].t = "sym" /\ t[j].name = <<"x">>
         THEN [t |-> "var", v |-> v] ELSE t[j]])

\* The try block of evaluateFunction: the expression is normalised, parsed
\* and evaluated with x in scope; Throw when parsing or evaluation throws.
ParsedFunction(expr, x) ==
  evaluateTokens(
    WithScope(
      Tokenize(
        InsertTimesBeforeX(ReplaceSquared(StripYEquals(Trim(expr))), 1),
        1),
      x))

\* Variant of evaluateFunction: an exception is not caught.
evaluateFunctionUncaught(expr, x) == ParsedFunction(expr, x)

\* evaluateFunction: the value of the expression at x, NaN when parsing or
\* evaluation throws.
evaluateFunction(expr, x) ==
  Bind(ParsedFunction(expr, x), LAMBDA val : IF val = Throw THEN NaN ELSE val)

\* x < y for two rationals.
Less(x, y) == Sub(x, y).n < 0

\* The points s, sorted by x, with the point p put in.
RECURSIVE InsertByX(_, _)
InsertByX(p, s) ==
  Bind2(p, s, LAMBDA q, t :
    IF t = <<>> THEN <<q>>
    ELSE IF Less(q.x, t[Len(t)].x)
      THEN Append(InsertByX(q, SubSeq(t, 1, Len(t) - 1)), t[Len(t)])
      ELSE Append(t, q))

\* data.sort((a, b) => a.x - b.x)
RECURSIVE SortByX(_)
SortByX(s) ==
  Bind(s, LAMBDA t :
    IF t = <<>> THEN <<>>
    ELSE InsertByX(t[Len(t)], SortByX(SubSeq(t, 1, Len(t) - 1))))

\* !isNaN(y) && isFinite(y) && Math.abs(y) < 1e6 (a value outside the
\* model's range is kept, and seen by the caller).
IsPlotted(y) ==
  \/ y.k \in {"tiny", "oor"}
  \/ y.k = "num" /\ Abs(y.n) \div y.d < 1000000

\* In place of a list of points: an exception went through the function.
Thrown == <<Throw>>

\* The loop of generateFunctionData from step i on; Thrown when a call of
\* evaluateFunction throws.
SamplePoints(expr, start, stepSize, steps, i) ==
  Bind([j \in 1..(steps - i + 1) |->
          Bind(Add(start, Mul(Num(i + j - 1), stepSize)), LAMBDA x :
            [x |-> x, y |-> evaluateFunction(expr, x)])],
       LAMBDA samples :
    IF \E j \in DOMAIN samples : samples[j].y = Throw THEN Thrown
    ELSE SelectSeq(samples, LAMBDA p : IsPlotted(p.y)))

\* generateFunctionData: the points kept, sorted by x; Thrown when a call of
\* evaluateFunction throws.
generateFunctionData(expr, start, end, steps) ==
  Bind(SamplePoints(expr, start, Div(Sub(end, start), Num(steps)), steps, 0),
       LAMBDA points : IF points = Thrown THEN Thrown ELSE SortByX(points))

\* The data generateGraph sets for an expression and a zoom factor.
GraphData(expr, z) ==
  generateFunctionData(expr, Div(Num(-10), z), Div(Num(10), z), SampleSteps)

\* The expressions typed and the zoom factors selected.
GraphExpressions ==
  {<<"y", "=", "x", "^", "2">>, <<"y", "=", "2", "x">>, <<"x", "SQUARED">>,
   <<"y", "=">>, <<"y", "=", "x", "+">>}
Zooms == {Num(1), Num(2), Rat(1, 2)}

\* The component after it is mounted: the effect has run once.
GraphMounted ==
  /\ expression = <<"y", "=", "x", "^", "2">>
  /\ zoom = Num(1)
  /\ data = <<>>
  /\ error = NULL
  /\ pending = {[id |-> 0, expression |-> <<"y", "=", "x", "^", "2">>,
                 zoom |-> Num(1), left |-> DebounceDelay]}
  /\ effectTimer = 0
  /\ elapsed = 0

\* The id setTimeout returns: one no timer in use has.
FreshTimer ==
  CHOOSE id \in 0..MaxTimers :
    /\ id # effectTimer
    /\ \A t \in pending : t.id # id
    /\ \A other \in 0..(id - 1) :
         other = effectTimer \/ \E t \in pending : t.id = other

\* The message of the catch branch of generateGraph, one name per group of
\* Chinese characters.
GraphErrorMessage == <<"wu", "fa", "jie", "xi", "han", "shu", "biao", "da", "shi">>

\* generateGraph, for the expression and zoom of the render that made it:
\* the error is cleared, and the new data is set, or the error when
\* generateFunctionData throws.
generateGraph(expr, z) ==
  \E newData \in {GraphData(expr, z)} :
    IF newData = Thrown
      THEN /\ error' = GraphErrorMessage
           /\ UNCHANGED data
      ELSE /\ \A j \in 1..Len(newData) : newData[j].y # OutOfRange
           /\ error' = NULL
           /\ data' = newData

\* Variant of useEffect: the effect returns no cleanup, so the timer of the
\* previous run stays set.
useEffectWithoutCleanup(expr, z) ==
  /\ Cardinality(pending) < MaxTimers
  /\ pending' = pending \cup {[id |-> FreshTimer, expression |-> expr,
                               zoom |-> z, left |-> DebounceDelay]}
  /\ effectTimer' = FreshTimer

\* The effect on [expression, zoom] after a render that changed one of them:
\* the cleanup of the previous run clears its timer, and a new timer is set
\* for the generateGraph of this render.
useEffect(expr, z) ==
  /\ Cardinality(pending) < MaxTimers
  /\ pending' = {t \in pending : t.id # effectTimer}
                  \cup {[id |-> FreshTimer, expression |-> expr,
                         zoom |-> z, left |-> DebounceDelay]}
  /\ effectTimer' = FreshTimer

\* onChange of the text field: setExpression, the render and its effect.
ChangeExpression(value) ==
  /\ value # expression
  /\ expression' = value
  /\ useEffect(value, zoom)
  /\ elapsed' = 0
  /\ UNCHANGED <<zoom, data, error, vars, libraryVars>>

\* onChange of the zoom slider: setZoom, the render and its effect.
ChangeZoom(value) ==
  /\ value # zoom
  /\ zoom' = value
  /\ useEffect(expression, value)
  /\ elapsed' = 0
  /\ UNCHANGED <<expression, data, error, vars, libraryVars>>

\* onClick of the draw button.
ClickDraw ==
  /\ generateGraph(expression, zoom)
  /\ UNCHANGED <<expression, zoom, pending, effectTimer, elapsed, vars,
                 libraryVars>>

\* A timer that is due runs its callback.
TimerFires ==
  \E t \in pending :
    /\ t.left = 0
    /\ generateGraph(t.expression, t.zoom)
    /\ pending' = pending \ {t}
    /\ UNCHANGED <<expression, zoom, effectTimer, elapsed, vars, libraryVars>>

\* Time passes, while no timer is due.
Tick ==
  /\ elapsed < MaxElapsed
  /\ \A t \in pending : t.left > 0
  /\ pending' = {[t EXCEPT !.left = IF @ > TimeStep THEN @ - TimeStep ELSE 0] :
                   t \in pending}
  /\ elapsed' = (IF elapsed + TimeStep > MaxElapsed THEN MaxElapsed
                 ELSE elapsed + TimeStep)
  /\ UNCHANGED <<expression, zoom, data, error, effectTimer, vars,
                 libraryVars>>

NextGraph ==
  \/ \E value \in GraphExpressions : ChangeExpression(value)
  \/ \E value \in Zooms : ChangeZoom(value)
  \/ ClickDraw
  \/ TimerFires
  \/ Tick


(* ---------------------------- library calls --------------------------- *)

\* Characters of the expressions handed to the pre-processor.
ExprChars == {"2", "5", "x", "(", ")", ".", "%", " ",
              "TIMES", "DIVIDE", "SQUARED", "PI"}

\* The strings over ExprChars of length n.
RECURSIVE StringsOfLen(_)
StringsOfLen(n) ==
  IF n = 0 THEN {<<>>}
  ELSE {Append(t, c) : t \in StringsOfLen(n - 1), c \in ExprChars}

\* The expressions the pre-processor is called with: every string over
\* ExprChars up to MaxExprLen, and four longer ones.
Expressions ==
  UNION {StringsOfLen(n) : n \in 0..MaxExprLen}
  \cup {<<"2", "x", "+", "3">>, <<"3", "SQUARED">>,
        <<"5", "0", "%", "+", "3", "0">>,
        <<"2", ".", "5", "%", "TIMES", "(", "x", ")">>}

\* The numbers the converters are called with: the integers up to MaxNumber,
\* the largest below 2^31, and some fractions and negative numbers.
Numbers ==
  {Num(n) : n \in 0..MaxNumber}
  \cup {Num(2147483647), Num(2147483646), Num(1073741824)}
  \cup {Rat(1, 2), Rat(5, 2), Rat(51, 2), Num(-5), Num(-255), Rat(-1, 2),
        Rat(-5, 2)}

\* The coefficients the equation solver is called with.
Coefficients ==
  {[k |-> "abc", a |-> Num(a), b |-> Num(b), c |-> Num(c)] :
     a \in -MaxCoefficient..MaxCoefficient,
     b \in -MaxCoefficient..MaxCoefficient,
     c \in -MaxCoefficient..MaxCoefficient}

\* A caller is about to work on an operand.
InitLibrary ==
  /\ Init
  /\ GraphMounted
  /\ operand \in {[k |-> "expr", s |-> e] : e \in Expressions}
                   \cup Numbers \cup Coefficients
  /\ call = NoCall
  /\ returned = NoCall

\* A call of fn on arg returns value.
Returns(fn, arg, value) ==
  /\ call' = [fn |-> fn, arg |-> arg]
  /\ returned' = value
  /\ UNCHANGED <<operand, vars, graphVars>>

\* const sanitized = sanitizeExpressionForEval(expr)
CallSanitize ==
  /\ call = NoCall
  /\ operand.k = "expr"
  /\ Returns("sanitizeExpressionForEval", operand.s,
             sanitizeExpressionForEval(operand.s))

CallDecimalToBinary ==
  /\ call = NoCall
  /\ operand.k = "num"
  /\ Returns("decimalToBinary", operand, decimalToBinary(operand))

CallDecimalToHex ==
  /\ call = NoCall
  /\ operand.k = "num"
  /\ Returns("decimalToHex", operand, decimalToHex(operand))

\* The string decimalToBinary returned is converted back.
CallBinaryToDecimal ==
  /\ call.fn = "decimalToBinary"
  /\ Returns("binaryToDecimal", returned, binaryToDecimal(returned))

\* The string decimalToHex returned is converted back.
CallHexToDecimal ==
  /\ call.fn = "decimalToHex"
  /\ Returns("hexToDecimal", returned, hexToDecimal(returned))

\* The roots of an irrational square root are returned as OutOfRange.
CallSolveQuadratic ==
  /\ call = NoCall
  /\ operand.k = "abc"
  /\ \E solved \in {solveQuadraticEquation(operand.a, operand.b, operand.c)} :
       /\ solved.value # OutOfRange
       /\ Returns("solveQuadraticEquation", operand, solved)

NextLibrary ==
  \/ CallSanitize
  \/ CallDecimalToBinary
  \/ CallDecimalToHex
  \/ CallBinaryToDecimal
  \/ CallHexToDecimal
  \/ CallSolveQuadratic

SpecLibrary == InitLibrary /\ [][NextLibrary]_allVars

(* ------------------------- calculator buttons -------------------------- *)

\* The page as it is loaded: the calculator and the graphing tool in their
\* initial states, and no library call made.
PageLoaded == Init /\ GraphMounted /\ LibraryIdle

SpecGraph == PageLoaded /\ [][NextGraph]_allVars

\* A button of the calculator leaves the other components as they are.
CalculatorOnly == UNCHANGED <<graphVars, libraryVars>>

\* The editing buttons: C, backspace, = and the angle-mode switch.
EditButtons ==
  \/ handleClear /\ CalculatorOnly
  \/ handleBackspace /\ CalculatorOnly
  \/ handleEquals /\ CalculatorOnly
  \/ toggleAngleMode /\ CalculatorOnly

\* The function buttons.
FunctionButtons ==
  \/ \E label \in TrigLabels : calculateTrigFunction(label) /\ CalculatorOnly
  \/ handleFactorial /\ CalculatorOnly
  \/ handleSquareRoot /\ CalculatorOnly
  \/ handleReciprocal /\ CalculatorOnly
  \/ \E exponent \in PowerExponents : handlePower(exponent) /\ CalculatorOnly
  \/ handleExp /\ CalculatorOnly

\* Arithmetic: digits and an operator, the editing buttons, factorial and
\* the square root.
Next ==
  \/ \E value \in ArithmeticKeys : handleInput(value) /\ CalculatorOnly
  \/ EditButtons
  \/ handleFactorial /\ CalculatorOnly
  \/ handleSquareRoot /\ CalculatorOnly

Spec == PageLoaded /\ [][Next]_allVars

\* Digits, dot, parentheses and the constants, with every function button.
NextSymbols ==
  \/ \E value \in SymbolKeys : handleInput(value) /\ CalculatorOnly
  \/ \E name \in ConstantNames : handleInsertConstant(name) /\ CalculatorOnly
  \/ EditButtons
  \/ FunctionButtons

SpecSymbols == PageLoaded /\ [][NextSymbols]_allVars

\* A digit, an operator and a constant, the editing buttons and the square
\* root.
NextChain ==
  \/ \E value \in ChainKeys : handleInput(value) /\ CalculatorOnly
  \/ \E name \in ChainConstants : handleInsertConstant(name) /\ CalculatorOnly
  \/ EditButtons
  \/ handleSquareRoot /\ CalculatorOnly

SpecChain == PageLoaded /\ [][NextChain]_allVars

\* Texts typed into the calculator: one or two digits followed by up to
\* MaxZeros zeros, and a few expressions.
TypedTexts ==
  {ds \o Zeros[z] : ds \in {<<"1">>, <<"2">>, <<"5">>, <<"1", "5">>},
                    z \in 0..MaxZeros}
  \cup {<<"1", "/", "3">>, <<"2", "/", "3">>, <<"2", "+", "2">>,
        <<"0", ".", "5">>, <<"-", "2">>, <<"2", "e">>, <<"p", "i">>,
        <<"3", "0">>, <<"2", "1">>}

\* The page after such a text has been typed.
TextTyped ==
  /\ input \in TypedTexts
  /\ result = NULL
  /\ lastExpression = NULL
  /\ angleMode = "deg"
  /\ justComputed = FALSE
  /\ GraphMounted
  /\ LibraryIdle

\* Evaluate and the function buttons, pressed on what has been typed.
NextTyped ==
  \/ handleEquals /\ CalculatorOnly
  \/ FunctionButtons

SpecTyped == TextTyped /\ [][NextTyped]_allVars

(* -------------------------------- claims ------------------------------- *)

\* The keys of the keypad that call handleInput.
KeypadKeys == DigitChars \cup {".", "(", ")", "+", "-", "*", "/", "%"}

\* What the delegated evaluation of the text gives: a value, or Throw.
Evaluated == evaluate(sanitizeExpressionForEval(input))

\* The text evaluates to a finite number.
EvaluatesFinite == Evaluated # Throw /\ Evaluated.k = "num"

\* The evaluation of the text throws or gives a value that is not finite.
EvaluationFails == Evaluated = Throw \/ Evaluated.k \in {"nan", "inf"}

\* C1 -- Evaluate success: in every state whose text is not blank and
\* evaluates to a finite number v, handleEquals cannot but make
\* lastExpression the original text (not the sanitized one), result and the
\* text the formatted v, and set justComputed; the text "2+2" gives result
\* "4", lastExpression "2+2" and text "4".
C1_EvaluateSuccess ==
  (~IsBlank(input) /\ EvaluatesFinite)
    => ~ENABLED (/\ handleEquals
                 /\ ~(/\ lastExpression' = input
                      /\ result' = formatNumber(Evaluated)
                      /\ input' = formatNumber(Evaluated)
                      /\ justComputed' = TRUE
                      /\ (input = <<"2", "+", "2">>
                            => /\ result' = <<"4">>
                               /\ lastExpression' = <<"2", "+", "2">>
                               /\ input' = <<"4">>)))

\* "2+2" has been evaluated.
C1_Witness ==
  /\ justComputed
  /\ lastExpression = <<"2", "+", "2">>
  /\ result = <<"4">>
  /\ input = <<"4">>

\* C2 -- Append operator: after a computation the text becomes the prior
\* result followed by the operator and justComputed is reset; while editing
\* the operator is appended to the text.  So "2+2" =, "+" gives the text
\* "4+", and then "3", = gives the result "7".
C2_AppendOperator ==
  [][/\ \A value \in {"+", "-", "*", "/", "%"} :
          handleInput(value)
            => /\ input' = Append(IF justComputed THEN result ELSE input, value)
               /\ justComputed' = FALSE
     /\ (handleInput("+") /\ justComputed /\ lastExpression = <<"2", "+", "2">>
           /\ result = <<"4">>)
          => input' = <<"4", "+">>
     /\ (handleEquals /\ ~justComputed /\ lastExpression = <<"2", "+", "2">>
           /\ input = <<"4", "+", "3">>)
          => result' = <<"7">>]_vars

\* The chain "2+2" =, "+", "3", = has been played: "4+3" is only typed by
\* chaining on the result 4.
C2_Witness ==
  /\ justComputed
  /\ lastExpression = <<"4", "+", "3">>
  /\ result = <<"7">>
  /\ input = <<"7">>

\* C3 -- Append symbol (digit, dot, parenthesis): after a computation the
\* symbol replaces the text, result and lastExpression become null and
\* justComputed is reset; while editing the symbol is appended to the text
\* and justComputed stays false.
C3_AppendSymbol ==
  [][\A value \in DigitChars \cup {".", "(", ")"} :
       handleInput(value)
         => IF justComputed
              THEN /\ input' = <<value>>
                   /\ result' = NULL
                   /\ lastExpression' = NULL
                   /\ justComputed' = FALSE
              ELSE /\ input' = Append(input, value)
                   /\ justComputed' = FALSE]_vars

\* A result and its expression are shown and the key "(" replaces them.
C3_Witness ==
  /\ justComputed
  /\ result = <<"0", ".", "5">>
  /\ lastExpression # NULL
  /\ ENABLED (handleInput("(") /\ input' = <<"(">> /\ result' = NULL
                /\ lastExpression' = NULL /\ ~justComputed')

\* An append of raw input: a keypad key or a constant.
AppendsInput ==
  \/ \E value \in KeypadKeys : handleInput(value)
  \/ \E name \in ConstantNames : handleInsertConstant(name)

\* C4 as stated -- after any Append symbol, Append operator or Insert
\* constant transition, from either state, result and lastExpression are
\* both null.
C4_ClearedOnAppend ==
  [][AppendsInput => (result' = NULL /\ lastExpression' = NULL)]_vars

\* C4, amended -- after any append or insert result is null and justComputed
\* is false; lastExpression is null after a symbol or a constant that
\* follows a computation, and is left as it was after an operator that
\* follows a computation and after any append or insert while editing.
C4_LabelKeptOnChain ==
  [][/\ AppendsInput => (result' = NULL /\ justComputed' = FALSE)
     /\ \A value \in KeypadKeys :
          handleInput(value)
            => lastExpression' = IF justComputed /\ ~IsOperatorKey(value)
                                   THEN NULL ELSE lastExpression
     /\ \A name \in ConstantNames :
          handleInsertConstant(name)
            => lastExpression' = IF justComputed THEN NULL ELSE lastExpression]_vars

\* An operator has been chained on the result of "2+2": the text is edited
\* while lastExpression still shows "2+2".
C4_Witness ==
  /\ ~justComputed
  /\ result = NULL
  /\ lastExpression = <<"2", "+", "2">>
  /\ input = <<"4", "+">>

\* A function button whose library function gives a value that is not finite
\* on the value of the text.
FunctionFails ==
  /\ Evaluated # Throw
  /\ Evaluated.k = "num"
  /\ \/ \E label \in TrigLabels :
          /\ calculateTrigFunction(label)
          /\ ~IsFiniteValue(TrigFunction(label, ToAngle(Evaluated)))
     \/ handleSquareRoot /\ ~IsFiniteValue(squareRoot(Evaluated))
     \/ handleReciprocal /\ ~IsFiniteValue(reciprocal(Evaluated))
     \/ \E exponent \in PowerExponents :
          handlePower(exponent) /\ ~IsFiniteValue(power(Evaluated, exponent))
     \/ handleExp /\ ~IsFiniteValue(MathExp(Evaluated))

\* C5 -- Failure containment: when Evaluate fails, or a function button is
\* pressed on a text that does not evaluate, or its library function reports
\* an error or gives a value that is not finite, the text and angleMode are
\* after the operation what they were before it.
C5_FailureContainment ==
  [][(\/ handleEquals /\ ~IsBlank(input) /\ EvaluationFails
      \/ FunctionButtons /\ EvaluationFails
      \/ FunctionFails)
       => UNCHANGED <<input, angleMode>>]_vars

\* C6 -- Evaluate failure: in every state whose text is not blank and whose
\* evaluation throws or gives a value that is not finite, handleEquals is
\* enabled (it handles the failure itself) and cannot but set result to the
\* error marker, lastExpression to the text and justComputed, and leave the
\* text unchanged.
C6_EvaluateFailure ==
  (~IsBlank(input) /\ EvaluationFails)
    => /\ ENABLED handleEquals
       /\ ~ENABLED (/\ handleEquals
                    /\ ~(/\ result' = ErrorMarker
                         /\ lastExpression' = input
                         /\ justComputed' = TRUE
                         /\ input' = input))

\* The text "NaN", whose value is not finite, has been evaluated.
C6_Witness ==
  /\ justComputed
  /\ result = ErrorMarker
  /\ lastExpression = NaNString
  /\ input = NaNString

\* C7 as stated -- Evaluate on a blank text clears result, ends in the
\* editing state and leaves the text, lastExpression and angleMode unchanged.
C7_BlankIsNoOp ==
  [][(handleEquals /\ IsBlank(input))
       => /\ result' = NULL
          /\ justComputed' = FALSE
          /\ UNCHANGED <<input, lastExpression, angleMode>>]_vars

\* C7, amended -- Evaluate on a blank text clears result and lastExpression,
\* ends in the editing state and leaves the text and angleMode unchanged.
C7_BlankClearsLabel ==
  [][(handleEquals /\ IsBlank(input))
       => /\ result' = NULL
          /\ lastExpression' = NULL
          /\ justComputed' = FALSE
          /\ UNCHANGED <<input, angleMode>>]_vars

\* The text is blank while lastExpression shows "2+2", and Evaluate clears it.
C7_Witness ==
  /\ IsBlank(input)
  /\ lastExpression = <<"2", "+", "2">>
  /\ ENABLED (handleEquals /\ lastExpression' = NULL /\ result' = NULL
                /\ input' = input)

\* The marker each function button shows for a text that does not evaluate.
InvalidMarkerShown ==
  \/ (\E label \in TrigLabels : calculateTrigFunction(label))
       /\ result' = InvalidInputMarker
  \/ handleFactorial /\ result' = NonNegIntegerMarker
  \/ handleSquareRoot /\ result' = InvalidInputMarker
  \/ handleReciprocal /\ result' = InvalidOrZeroMarker
  \/ (\E exponent \in PowerExponents : handlePower(exponent))
       /\ result' = InvalidInputMarker
  \/ handleExp /\ result' = InvalidInputMarker

\* C8 -- Function button on an invalid text: in every state whose text does
\* not evaluate to a finite number, every function button is enabled and
\* cannot but set result to its invalid-input marker, set justComputed, and
\* leave the text unchanged.
C8_InvalidInput ==
  EvaluationFails
    => /\ ENABLED handleFactorial /\ ENABLED handleSquareRoot
       /\ ENABLED handleReciprocal /\ ENABLED handleExp
       /\ \A label \in TrigLabels : ENABLED calculateTrigFunction(label)
       /\ \A exponent \in PowerExponents : ENABLED handlePower(exponent)
       /\ ~ENABLED (/\ FunctionButtons
                    /\ ~(/\ InvalidMarkerShown
                         /\ justComputed' = TRUE
                         /\ input' = input))

\* A function button has been pressed on the text "(".
C8_Witness ==
  /\ justComputed
  /\ result = InvalidInputMarker
  /\ input = <<"(">>

\* C9 -- Trigonometric success: in every state whose text evaluates to a
\* finite v, a trigonometric button cannot but apply its function to
\* v*pi/180 in degrees and to v in radians, make lastExpression
\* "<fn>(<text>)", with the degree sign after the text only in degrees, make
\* result and the text the formatted output, and set justComputed.  In
\* degrees, sin on "30" gives result "0.5" and lastExpression "sin(30DEG)".
C9_TrigSuccess ==
  EvaluatesFinite
    => \A label \in TrigLabels :
         ~ENABLED
            (/\ calculateTrigFunction(label)
             /\ ~(/\ result' = formatNumber(TrigFunction(label,
                                 IF angleMode = "deg"
                                   THEN Div(Mul(Evaluated, PiValue), Num(180))
                                   ELSE Evaluated))
                  /\ input' = result'
                  /\ lastExpression' =
                       label \o <<"(">> \o input
                         \o (IF angleMode = "deg" THEN <<"DEG", ")">>
                             ELSE <<")">>)
                  /\ justComputed' = TRUE
                  /\ (input = <<"3", "0">> /\ angleMode = "deg"
                        /\ label = <<"s", "i", "n">>)
                       => /\ result' = <<"0", ".", "5">>
                          /\ lastExpression'
                               = <<"s", "i", "n", "(", "3", "0", "DEG", ")">>))

\* sin has been applied to "30" in degrees.
C9_Witness ==
  /\ justComputed
  /\ angleMode = "deg"
  /\ lastExpression = <<"s", "i", "n", "(", "3", "0", "DEG", ")">>
  /\ result = <<"0", ".", "5">>
  /\ input = <<"0", ".", "5">>

C11_Clear ==
  /\ ENABLED handleClear
  /\ ~ENABLED (handleClear
                 /\ ~(/\ input' = <<>>
                      /\ result' = NULL
                      /\ lastExpression' = NULL
                      /\ justComputed' = FALSE
                      /\ angleMode' = angleMode))

\* A result is shown in radians mode, and Clear gives the initial state but
\* for the angle mode.
C11_Witness ==
  /\ justComputed
  /\ angleMode = "rad"
  /\ result = <<"5">>
  /\ lastExpression = <<"2", "+", "3">>
  /\ ENABLED (handleClear /\ input' = <<>> /\ result' = NULL
                /\ lastExpression' = NULL /\ ~justComputed'
                /\ angleMode' = "rad")

\* C12 -- Insert constant (pi or e): after a computation the text becomes
\* the constant's name alone, result and lastExpression are cleared and
\* justComputed is reset; while editing the name is appended to the text and
\* nothing else changes.
C12_InsertConstant ==
  [][\A name \in ConstantNames :
       handleInsertConstant(name)
         => IF justComputed
              THEN /\ input' = name
                   /\ result' = NULL
                   /\ lastExpression' = NULL
                   /\ justComputed' = FALSE
                   /\ angleMode' = angleMode
              ELSE /\ input' = input \o name
                   /\ UNCHANGED <<result, lastExpression, angleMode,
                                  justComputed>>]_vars

\* A result is shown, and inserting pi replaces the text.
C12_Witness ==
  /\ justComputed
  /\ result # NULL
  /\ lastExpression # NULL
  /\ input # <<>>
  /\ ENABLED (handleInsertConstant(<<"p", "i">>) /\ input' = <<"p", "i">>
                /\ result' = NULL /\ lastExpression' = NULL
                /\ ~justComputed')

\* The other angle mode.
OtherMode(mode) == IF mode = "deg" THEN "rad" ELSE "deg"

\* C13 -- Toggle angle mode: in every reachable state the toggle flips
\* angleMode between degrees and radians and leaves input, result,
\* lastExpression and justComputed unchanged; a second toggle flips it back
\* to the original mode; and a step that is not a toggle leaves angleMode
\* unchanged.
C13_ToggleAngleMode ==
  /\ [](/\ angleMode \in {"deg", "rad"}
        /\ ENABLED (toggleAngleMode /\ angleMode' = OtherMode(angleMode)))
  /\ [][/\ toggleAngleMode
             => /\ angleMode' = OtherMode(angleMode)
                /\ OtherMode(angleMode') = angleMode
                /\ UNCHANGED <<input, result, lastExpression, justComputed>>
        /\ ~toggleAngleMode => angleMode' = angleMode]_vars

\* The mode has been switched to radians and then a result was computed.
C13_Witness ==
  /\ angleMode = "rad"
  /\ justComputed
  /\ lastExpression = <<"s", "i", "n", "(", "3", "0", ")">>
  /\ ENABLED (toggleAngleMode /\ angleMode' = "deg" /\ input' = input
                /\ result' = result /\ justComputed')

\* C14 -- Number formatting: every numeric result that Evaluate, the square
\* root button or the factorial button stores is formatNumber of the value
\* computed; a value within 1e-12 of an integer is shown as that integer,
\* any other is rounded to six decimals with trailing zeros stripped (4.0 is
\* "4", 1/3 is "0.333333"), and a value that is not finite is shown as "NaN",
\* never as "Infinity".
C14_Formatting ==
  /\ formatNumber(Rat(4, 1)) = <<"4">>
  /\ formatNumber(Rat(1, 3)) = <<"0", ".", "3", "3", "3", "3", "3", "3">>
  /\ formatNumber(Infinity(1)) = NaNString
  /\ result # InfinityString
  /\ input # InfinityString
  /\ EvaluatesFinite
       => /\ ~ENABLED (handleEquals /\ result' # formatNumber(Evaluated))
          /\ ~ENABLED (handleSquareRoot
                         /\ result' # formatNumber(squareRoot(Evaluated)))
          /\ ~ENABLED (handleFactorial /\ result' # NonNegIntegerMarker
                         /\ result' # formatNumber(factorial(Evaluated)))

\* A numeric literal: digits with at most one decimal point, ending in a digit.
IsNumericLiteral(s) ==
  /\ s # <<>>
  /\ \A i \in 1..Len(s) : IsDigit(s[i]) \/ s[i] = "."
  /\ Cardinality({i \in 1..Len(s) : s[i] = "."}) <= 1
  /\ IsDigit(s[Len(s)])

\* C15: the pre-processor returns a string for every input string, in which
\* no TIMES, DIVIDE, SQUARED or PI glyph remains;  "2x+3" becomes "2*x+3",
\* "3 SQUARED" becomes "3^2" and "50%+30" becomes "(50/100)+30";  a '*' is
\* inserted between a digit and a letter, PI or '(' that immediately follows
\* it, and between ')' and '(';  and a numeric literal immediately followed
\* by % becomes (<literal>/100).
C15_Preprocessor ==
  call.fn = "sanitizeExpressionForEval" =>
    /\ DOMAIN returned = 1..Len(returned)
    /\ \A i \in 1..Len(returned) :
         returned[i] \notin {"TIMES", "DIVIDE", "SQUARED", "PI"}
    /\ call.arg = <<"2", "x", "+", "3">>
         => returned = <<"2", "*", "x", "+", "3">>
    /\ call.arg = <<"3", "SQUARED">> => returned = <<"3", "^", "2">>
    /\ call.arg = <<"5", "0", "%", "+", "3", "0">>
         => returned = <<"(", "5", "0", "/", "1", "0", "0", ")", "+", "3", "0">>
    /\ \A d \in {"2", "5"} :
         /\ call.arg = <<d, "x">> => returned = <<d, "*", "x">>
         /\ call.arg = <<d, "(">> => returned = <<d, "*", "(">>
         /\ call.arg = <<d, "PI">> => returned = <<d, "*", "p", "i">>
    /\ call.arg = <<")", "(">> => returned = <<")", "*", "(">>
    /\ (/\ Len(call.arg) > 1
        /\ call.arg[Len(call.arg)] = "%"
        /\ IsNumericLiteral(SubSeq(call.arg, 1, Len(call.arg) - 1)))
         => returned = <<"(">> \o SubSeq(call.arg, 1, Len(call.arg) - 1)
                         \o <<"/", "1", "0", "0", ")">>


\* The caller's operand is a non-negative integer.
IsNaturalOperand == operand.k = "num" /\ operand.d = 1 /\ operand.n >= 0

\* C16: for a non-negative integer n below 2^31, decimalToBinary(n) is a
\* non-empty string of binary digits that binaryToDecimal converts back to
\* n, and decimalToHex(n) is a non-empty string of hexadecimal digits that
\* hexToDecimal converts back to n.
C16_RoundTrip ==
  IsNaturalOperand =>
    /\ call.fn = "decimalToBinary"
         => /\ call.arg = operand
            /\ Len(returned) >= 1
            /\ \A i \in 1..Len(returned) : returned[i] \in {"0", "1"}
    /\ call.fn = "decimalToHex"
         => /\ call.arg = operand
            /\ Len(returned) >= 1
            /\ \A i \in 1..Len(returned) : IsHexDigit(returned[i])
    /\ call.fn = "binaryToDecimal" => returned = operand
    /\ call.fn = "hexToDecimal" => returned = operand

\* The largest integer below 2^31 has gone through decimalToHex and back.
C16_Witness ==
  /\ operand = Num(2147483647)
  /\ call = [fn |-> "hexToDecimal",
             arg |-> <<"7", "F", "F", "F", "F", "F", "F", "F">>]
  /\ returned = operand


\* s is the numeral of the natural number m in the radix: digits of the
\* radix, upper case, no leading zero except for "0" itself.
IsNumeralOf(s, m, radix) ==
  /\ Len(s) >= 1
  /\ \A i \in 1..Len(s) :
       /\ IsDigit(s[i]) \/ s[i] \in {"A", "B", "C", "D", "E", "F"}
       /\ HexDigitValue(s[i]) < radix
  /\ Len(s) > 1 => s[1] # "0"
  /\ ParseInt(s, radix) = m

\* What the encoders are to return for a finite x in the radix.
EncodesIntegerPart(s, x, radix) ==
  IF x.n >= 0 THEN IsNumeralOf(s, Floor(x), radix)
  ELSE /\ Len(s) >= 2
       /\ s[1] = "-"
       /\ IsNumeralOf(Tail(s), Floor(Neg(x)), radix)

\* C17: decimalToBinary and decimalToHex return the base-2 / base-16 numeral
\* of floor(x) for every x >= 0, fractions included, which is "0" when the
\* integer part is zero, and "-" followed by the encoding of |x| for x < 0;
\* decimalToBinary(-5) = "-101".
C17_IntegerPart ==
  /\ call.fn = "decimalToBinary"
       => /\ EncodesIntegerPart(returned, call.arg, 2)
          /\ call.arg = Num(-5) => returned = <<"-", "1", "0", "1">>
  /\ call.fn = "decimalToHex" => EncodesIntegerPart(returned, call.arg, 16)


\* The discriminant b^2 - 4ac of the solver's integer coefficients.
Discriminant(abc) == abc.b.n * abc.b.n - 4 * abc.a.n * abc.c.n

\* a*x^2 + b*x + c = 0
IsRoot(abc, x) ==
  Add(Add(Mul(abc.a, Mul(x, x)), Mul(abc.b, x)), abc.c) = Num(0)

\* The roots returned are ones the rationals carry (the discriminant is a
\* perfect square).
HasRationalRoots ==
  returned.value.x1.k = "num" /\ returned.value.x2.k = "num"

\* C18: whenever solveQuadraticEquation returns two roots (a # 0 and a
\* positive discriminant), whatever the sign of a, x1 >= x2.
C18_RootOrder ==
  (/\ call.fn = "solveQuadraticEquation"
   /\ call.arg.a # Num(0)
   /\ Discriminant(call.arg) > 0)
    => /\ returned.value # Null
       /\ HasRationalRoots => ~Less(returned.value.x1, returned.value.x2)

\* C19: for a # 0, solveQuadraticEquation returns no roots exactly when
\* b^2 - 4ac < 0, the repeated root x1 = x2 = -b/(2a) exactly when
\* b^2 - 4ac = 0, and two distinct roots of a*x^2 + b*x + c = 0 exactly when
\* b^2 - 4ac > 0;  for a = 0 it reports "not quadratic" and returns no
\* numeric result;  (1,-3,2) gives {2, 1}, (1,0,1) none, (1,-2,1) {1, 1}.
C19_RootCount ==
  call.fn = "solveQuadraticEquation" =>
    /\ call.arg = operand
    /\ call.arg.a = Num(0)
         => returned.value = Null /\ returned.toast = "not quadratic"
    /\ call.arg.a # Num(0) =>
         /\ returned.value = Null <=> Discriminant(call.arg) < 0
         /\ returned.value = Null => returned.toast = "no real roots"
         /\ returned.value # Null =>
              /\ returned.toast = "none"
              /\ Discriminant(call.arg) <= 0 => HasRationalRoots
              /\ HasRationalRoots
                   => (returned.value.x1 = returned.value.x2
                         <=> Discriminant(call.arg) = 0)
              /\ Discriminant(call.arg) = 0
                   => returned.value.x1
                        = Div(Neg(call.arg.b), Mul(Num(2), call.arg.a))
              /\ HasRationalRoots
                   => /\ IsRoot(call.arg, returned.value.x1)
                      /\ IsRoot(call.arg, returned.value.x2)
    /\ call.arg = [k |-> "abc", a |-> Num(1), b |-> Num(-3), c |-> Num(2)]
         => returned.value = [x1 |-> Num(2), x2 |-> Num(1)]
    /\ call.arg = [k |-> "abc", a |-> Num(1), b |-> Num(0), c |-> Num(1)]
         => returned.value = Null
    /\ call.arg = [k |-> "abc", a |-> Num(1), b |-> Num(-2), c |-> Num(1)]
         => returned.value = [x1 |-> Num(1), x2 |-> Num(1)]

\* x^2 - 3x + 2 has been solved, with the two roots 2 and 1.
C19_Witness ==
  /\ operand = [k |-> "abc", a |-> Num(1), b |-> Num(-3), c |-> Num(2)]
  /\ call.fn = "solveQuadraticEquation"
  /\ returned = Reported([x1 |-> Num(2), x2 |-> Num(1)], "none")


\* C20 -- Graph redraw debounce: a change of expression or zoom clears the
\* timer that is pending and sets a new one for the new input, so at most one
\* timer is pending at any time and it is the timer of the current
\* expression and zoom; a timer that fires plots the data of the current
\* expression and zoom (none fires for a superseded input); and once the
\* input has been unchanged for the debounce delay and the timer then due
\* has run, no timer is pending and the data plotted is the data computed
\* from the current expression and zoom.
C20_Debounce ==
  /\ [](/\ Cardinality(pending) <= 1
        /\ \A t \in pending : t.expression = expression /\ t.zoom = zoom
        /\ (elapsed >= DebounceDelay /\ \A t \in pending : t.left > 0)
             => (pending = {} /\ data = GraphData(expression, zoom)))
  /\ [][/\ (expression' # expression \/ zoom' # zoom)
             => /\ Cardinality(pending') = 1
                /\ \A t \in pending' :
                     /\ t.left = DebounceDelay
                     /\ t.id = effectTimer'
                     /\ t.expression = expression'
                     /\ t.zoom = zoom'
        /\ TimerFires
             => /\ data' = GraphData(expression, zoom)
                /\ pending' = {}]_allVars

\* Expression and zoom have both been changed, the input has then been
\* unchanged for the debounce delay, and the data of the new input is
\* plotted.
C20_Witness ==
  /\ expression = <<"y", "=", "2", "x">>
  /\ zoom = Num(2)
  /\ elapsed = DebounceDelay
  /\ pending = {}
  /\ data # <<>>
  /\ data = GraphData(expression, zoom)

\* After the step a result is shown exactly if justComputed is set.
ResultWithComputed == (result' # NULL) <=> justComputed'

\* Some handler of the calculator, pressed with any key of the keypad, any
\* constant, any function label or any exponent, takes a step.
AnyHandler ==
  \/ \E value \in KeypadKeys : handleInput(value)
  \/ \E name \in ConstantNames : handleInsertConstant(name)
  \/ handleClear \/ handleBackspace \/ handleEquals \/ toggleAngleMode
  \/ \E label \in TrigLabels : calculateTrigFunction(label)
  \/ handleFactorial \/ handleSquareRoot \/ handleReciprocal
  \/ \E exponent \in PowerExponents : handlePower(exponent)
  \/ handleExp

\* C21: in every reachable state a result is shown (result is not null)
\* exactly if justComputed is set;  no handler, whatever the key, can take a
\* step to a state where that fails;  a step that sets a result sets
\* justComputed, and a step that clears justComputed clears the result.
C21_ResultIffComputed ==
  /\ []((result # NULL) <=> justComputed)
  /\ [](~ENABLED (AnyHandler /\ ~ResultWithComputed))
  /\ [][/\ (result' # NULL /\ result' # result) => justComputed'
        /\ (justComputed /\ ~justComputed') => result' = NULL]_vars

\* "2+2" has been evaluated and an operator then typed: the calculator has
\* left the computed state, the label is kept and no result is shown.
C21_Witness ==
  /\ input = <<"4", "+">>
  /\ lastExpression = <<"2", "+", "2">>
  /\ result = NULL
  /\ ~justComputed

\* The characters of what the user can enter (digits, the dot, parentheses,
\* operators, pi and e) and of a formatted finite number (digits, the dot
\* and the minus sign).
EnteredOrNumeric == KeypadKeys \cup {"p", "i", "e"}

\* C22: in every state reachable by the buttons, the text consists only of
\* tokens the user entered and of formatted finite results: no character
\* of the error marker, of an invalid-input marker or of "NaN" is ever part
\* of it, also when an operator is typed right after a failed computation.
C22_NoMarkerInText ==
  \A j \in 1..Len(input) : input[j] \in EnteredOrNumeric

\* The last operation succeeded: the result shown is a number (not a marker,
\* "NaN" or "Infinity"), and it has become the text.
ComputedNumber ==
  /\ justComputed
  /\ result # NULL
  /\ input = result
  /\ \A j \in 1..Len(result) :
       result[j] \in DigitChars \cup {".", "-", "e", "+"}

\* C23: after a successful Evaluate or function button, the text left behind
\* evaluates, to a value that is formatted as the result shown, and pressing
\* Evaluate again leaves the result and the text as they are.
C23_EvaluateAgain ==
  (ComputedNumber /\ evaluateExpressionValue(input) # OutOfRange)
    => /\ evaluateExpressionValue(input) # Null
       /\ formatNumber(evaluateExpressionValue(input)) = result
       /\ ENABLED handleEquals
       /\ ~ENABLED (handleEquals /\ ~(result' = result /\ input' = input))

\* Parsing or evaluating the expression of the graphing tool throws.
Unparsable == ParsedFunction(expression, Num(0)) = Throw

\* C24: in every reachable state of the graphing tool error is null, every
\* plotted point has a finite y with |y| < 1e6, and the points are in
\* ascending order of x;  for an expression that does not parse the draw
\* button can be pressed and gives an empty data set, and so does the timer.
C24_GraphFailure ==
  /\ [](/\ error = NULL
        /\ \A j \in 1..Len(data) :
             \/ data[j].y.k = "tiny"
             \/ /\ data[j].y.k = "num"
                /\ Abs(data[j].y.n) \div data[j].y.d < 1000000
        /\ \A j \in 1..(Len(data) - 1) : Less(data[j].x, data[j + 1].x)
        /\ Unparsable => ENABLED (ClickDraw /\ data' = <<>>))
  /\ [][((TimerFires \/ ClickDraw) /\ Unparsable)
          => (data' = <<>> /\ error' = NULL)]_allVars

\* The expression has been changed from one that is plotted to "y=x+", which
\* does not parse, and the timer has redrawn the graph: no point is plotted
\* and no error is shown.
C24_Witness ==
  /\ expression = <<"y", "=", "x", "+">>
  /\ Unparsable
  /\ pending = {}
  /\ elapsed = DebounceDelay
  /\ data = <<>>
  /\ error = NULL
====
